---- MODULE Spec2Model ----
(***************************************************************************)
(* Catalog backend (video games, platforms, publications, games, users):   *)
(* the partial-update statement builders, the update handlers and the      *)
(* delete cascades, over a PostgreSQL-like store reached through pooled    *)
(* connections with explicit BEGIN / COMMIT / ROLLBACK.                     *)
(***************************************************************************)
EXTENDS Integers, Sequences, FiniteSets, TLC

VARIABLES
    db,        \* committed rows, one set of rows per table
    pend,      \* per connection: rows deleted by its open transaction
    ins,       \* per connection: rows written by its open transaction
    tx,        \* per connection: "none" | "open" | "aborted"
    queue,     \* per connection: statements issued without await, in order
    idle,      \* connections sitting in the pool
    nfail,     \* number of injected backend failures so far
    effect,    \* per request: rows it removed from the committed store
    pictures,  \* image artifacts of pictures/platform, by key
    pc,        \* per request: the await the handler is suspended on
    op,        \* per request: the handler it runs
    arg,       \* per request: the id / code of the url
    upd,       \* per request: the validated body of an update
    client,    \* per request: the connection it borrowed (0: none)
    pubs,      \* per request: publicationIds read by the handler
    idx,       \* per request: position of the for..of loop in pubs
    resp,      \* per request: outcomes sent to the caller, in order
    log,       \* per request: what it did, in order
    cmt,       \* per request: "none" | "issued" | "ok" | "failed" (its COMMIT)
    err,       \* per request: kind of the error its catch block holds
    built      \* last statement produced by a statement builder

vars == <<db, pend, ins, tx, queue, idle, nfail, effect, pictures,
          pc, op, arg, upd, client, pubs, idx, resp, log, cmt, err, built>>

----------------------------------------------------------------------------
(* Bounds of the model *)

MaxPub == 2        \* publications of video game 1 in the initial store
MaxGame == 2       \* game rows in the initial store
MaxFail == 2       \* injected backend failures per behaviour

----------------------------------------------------------------------------
(* JavaScript values of the optional fields *)

Undefined == "undefined"
Null == "null"
FieldVals == {Undefined, Null, "a", "b"}

\* a request body after validation; an absent key reads as undefined
NoBody == [name |-> Undefined, description |-> Undefined, code |-> Undefined,
           abbreviation |-> Undefined, username |-> Undefined, email |-> Undefined,
           firstname |-> Undefined, lastname |-> Undefined, password |-> Undefined,
           is_admin |-> Undefined, picture |-> "none"]
NoStatement == [fn |-> "none", id |-> 0, vals |-> NoBody,
                stmt |-> [threw |-> FALSE, query |-> <<>>, params |-> <<>>]]

----------------------------------------------------------------------------
(* Partial-update builders.  A statement text is a sequence of tokens; the  *)
(* separators keep their text so that query.slice(0, -2) cuts characters.   *)

UpdateSet(table) == [k |-> "head", col |-> table, ph |-> 0]
Assign(col, index) == [k |-> "assign", col |-> col, ph |-> index]
Sep(text) == [k |-> "sep", col |-> text, ph |-> 0]
Where(col, index) == [k |-> "where", col |-> col, ph |-> index]
Cut == [k |-> "cut", col |-> "", ph |-> 0]

SepLen(text) == IF text = " , " THEN 3 ELSE 2

\* query.slice(0, -2): drops the last two characters of the text
Slice2(q) ==
    LET last == q[Len(q)]
    IN  IF last.k = "sep" /\ SepLen(last.col) = 2
        THEN SubSeq(q, 1, Len(q) - 1)
        ELSE Append(SubSeq(q, 1, Len(q) - 1), Cut)

Threw == [threw |-> TRUE, query |-> <<>>, params |-> <<>>]

\* if (value !== <absent>) { query += `col = $index, `; params.push(value); index++ }
PushField(s, col, value, present) ==
    IF present
    THEN [q |-> s.q \o <<Assign(col, s.index), Sep(", ")>>,
          p |-> Append(s.p, value),
          index |-> s.index + 1]
    ELSE s

PushFieldNoIncrement(s, col, value, present) ==
    IF present
    THEN [q |-> s.q \o <<Assign(col, s.index), Sep(", ")>>,
          p |-> Append(s.p, value),
          index |-> s.index]
    ELSE s

\* query = query.slice(0, -2); query += ` WHERE id = $index`; params.push(id)
Finish(s, id) ==
    [threw |-> FALSE,
     query |-> Append(Slice2(s.q), Where("id", s.index)),
     params |-> Append(s.p, id)]

VideoGameModel_updateVideoGame_dupIndex(id, updateValues) ==
    LET s0 == [q |-> <<UpdateSet("video_game")>>, p |-> <<>>, index |-> 1]
        s1 == PushFieldNoIncrement(s0, "name", updateValues.name,
                                   updateValues.name # Undefined)
        s2 == PushField(s1, "description", updateValues.description,
                        updateValues.description # Undefined)
    IN  IF Len(s2.p) = 0 THEN Threw ELSE Finish(s2, id)

\* VideoGameModel.updateVideoGame(client, id, updateValues), up to the query
VideoGameModel_updateVideoGame(id, updateValues) ==
    LET s0 == [q |-> <<UpdateSet("video_game")>>, p |-> <<>>, index |-> 1]
        s1 == PushField(s0, "name", updateValues.name,
                        updateValues.name # Undefined)
        s2 == PushField(s1, "description", updateValues.description,
                        updateValues.description # Undefined)
    IN  IF Len(s2.p) = 0 THEN Threw ELSE Finish(s2, id)

\* GenreModel.updateGenre(client, id, updateValues), up to the query
GenreModel_updateGenre(id, updateValues) ==
    LET s0 == [q |-> <<UpdateSet("genre")>>, p |-> <<>>, index |-> 1]
        s1 == PushField(s0, "name", updateValues.name,
                        updateValues.name # Undefined)
        s2 == PushField(s1, "description", updateValues.description,
                        updateValues.description # Undefined)
    IN  IF Len(s2.p) = 0 THEN Threw ELSE Finish(s2, id)

\* a default parameter (firstname = null) replaces undefined only
Default(value) == IF value = Undefined THEN Null ELSE value

\* updateUser(client, userId, username, email, firstname = null,
\*            lastname = null, password = null), up to the query
UserDB_updateUser(userId, u) ==
    LET firstname == Default(u.firstname)
        lastname == Default(u.lastname)
        password == Default(u.password)
        s0 == [q |-> <<UpdateSet("user"), Assign("username", 1), Sep(" , "),
                       Assign("email", 2), Sep(" ,")>>,
               p |-> <<u.username, u.email>>,
               index |-> 3]
        s1 == PushField(s0, "firstname", firstname, firstname # Null)
        s2 == PushField(s1, "lastname", lastname, lastname # Null)
        s3 == PushField(s2, "hashed_password", password, password # Null)
    IN  Finish(s3, userId)

----------------------------------------------------------------------------
(* The store, the pool and the requests *)

Req == {1, 2}      \* two requests, concurrent or one after the other
Conns == {1, 2}    \* the pool never runs out: one client per request at most

Tables == {"video_game", "publication", "game", "category", "user", "platform"}
NoRows == [t \in Tables |-> {}]

NaN == -1          \* parseInt of a url segment that is no number

Min(a, b) == IF a < b THEN a ELSE b

PublicationRow(i) ==
    [id |-> i, video_game_id |-> 1,
     platform_code |-> IF i % 2 = 1 THEN "PC" ELSE "PS5"]

\* k-th game row over n publications: users 2, 1 own publication n, then n-1, ...
GameRow(n, k) ==
    [user_id |-> IF k % 2 = 1 THEN 2 ELSE 1, publication_id |-> n - ((k - 1) \div 2)]

InitialStore(n, g) ==
    [t \in Tables |->
        CASE t = "video_game" -> {1, 2}
          [] t = "publication" -> {PublicationRow(i) : i \in 1..n}
          [] t = "game" -> {GameRow(n, k) : k \in 1..g}
          [] t = "category" -> {[video_game_id |-> 1, category_id |-> 1],
                                [video_game_id |-> 2, category_id |-> 1]}
          [] t = "user" -> {[id |-> 1, username |-> "admin", is_admin |-> TRUE],
                            [id |-> 2, username |-> "bob", is_admin |-> FALSE]}
          [] OTHER -> {"PC", "PS5", "XBOX"}]

\* a code taken as it was sent
ToUpperCase_asIs(code) == code

\* req.params.code.toUpperCase()
ToUpperCase(code) ==
    CASE code = "pc" -> "PC"
      [] code = "ps5" -> "PS5"
      [] code = "neo" -> "NEO"
      [] OTHER -> code

RECURSIVE Ascending(_)
Ascending(S) ==
    IF S = {} THEN <<>>
    ELSE LET m == CHOOSE x \in S : \A y \in S : x <= y
         IN  <<m>> \o Ascending(S \ {m})

E(e, k) == [e |-> e, k |-> k]

----------------------------------------------------------------------------
(* The backend: READ COMMITTED transactions with row locks.  A statement    *)
(* sees the committed rows minus the rows its own transaction deleted; a    *)
(* DELETE of a row another open transaction deleted waits for that          *)
(* transaction to end.                                                      *)

Visible(c, t) == (db[t] \ pend[c][t]) \cup ins[c][t]

LockedByOthers(c, t) == UNION {pend[d][t] : d \in Conns \ {c}}

\* client.query queues: a statement runs once the earlier ones of its client did
Ready(c) == queue[c] = <<>>

Waits(c, t, rows) == rows \cap LockedByOthers(c, t) # {}

\* an INSERT waits for the open transaction that inserted the same key
InsertWaits(c, t, rows) == rows \cap UNION {ins[d][t] : d \in Conns \ {c}} # {}

\* a row that other rows still reference cannot be deleted, nor lose its key
Referenced(c, t, rows) ==
    CASE t = "publication" ->
            \E g \in Visible(c, "game") : g.publication_id \in {p.id : p \in rows}
      [] t = "video_game" ->
            \/ \E p \in Visible(c, "publication") : p.video_game_id \in rows
            \/ \E l \in Visible(c, "category") : l.video_game_id \in rows
      [] t = "user" ->
            \E g \in Visible(c, "game") : g.user_id \in {u.id : u \in rows}
      [] t = "platform" ->
            \E p \in Visible(c, "publication") : p.platform_code \in rows
      [] OTHER -> FALSE

\* a SELECT that returns its rows
SelectOk(c) ==
    /\ tx[c] # "aborted"
    /\ UNCHANGED <<db, pend, ins, tx, nfail, effect>>

\* a DELETE of `rows` that succeeds; outside a transaction it commits at once
DeleteOk(r, c, t, rows) ==
    /\ tx[c] # "aborted"
    /\ ~Referenced(c, t, rows)
    /\ IF tx[c] = "open"
       THEN /\ pend' = [pend EXCEPT ![c][t] = @ \cup (rows \cap db[t])]
            /\ ins' = [ins EXCEPT ![c][t] = @ \ rows]
            /\ UNCHANGED <<db, effect>>
       ELSE /\ db' = [db EXCEPT ![t] = @ \ rows]
            /\ effect' = [effect EXCEPT ![r][t] = @ \cup rows]
            /\ UNCHANGED <<pend, ins>>
    /\ UNCHANGED <<tx, nfail>>

\* an UPDATE that turns the rows `old` into the rows `new` and succeeds
UpdateOk(r, c, t, old, new) ==
    /\ tx[c] # "aborted"
    /\ IF tx[c] = "open"
       THEN /\ pend' = [pend EXCEPT ![c][t] = @ \cup (old \cap db[t])]
            /\ ins' = [ins EXCEPT ![c][t] = (@ \ old) \cup new]
            /\ UNCHANGED <<db, effect>>
       ELSE /\ db' = [db EXCEPT ![t] = (@ \ old) \cup new]
            /\ effect' = [effect EXCEPT ![r][t] = @ \cup (old \ new)]
            /\ UNCHANGED <<pend, ins>>
    /\ UNCHANGED <<tx, nfail>>

\* an INSERT of `rows` that succeeds
InsertOk(r, c, t, rows) == UpdateOk(r, c, t, {}, rows)

\* a statement that fails: by itself (`natural`), or by an injected backend
\* error; an error inside a transaction aborts it
StmtFails(c, natural) ==
    /\ natural \/ tx[c] = "aborted" \/ nfail < MaxFail
    /\ nfail' = IF natural \/ tx[c] = "aborted" THEN nfail ELSE nfail + 1
    /\ tx' = [tx EXCEPT ![c] = IF @ = "open" THEN "aborted" ELSE @]
    /\ UNCHANGED <<db, pend, ins, effect>>

\* a BEGIN that opens nothing: every later statement commits by itself
Begin_autocommit(c) ==
    UNCHANGED <<db, pend, ins, tx, nfail, effect>>

Begin(c) ==
    /\ tx' = [tx EXCEPT ![c] = IF @ = "none" THEN "open" ELSE @]
    /\ UNCHANGED <<db, pend, ins, nfail, effect>>

\* COMMIT acknowledged: an open transaction becomes visible, an aborted one
\* is rolled back
CommitOk(r, c) ==
    /\ tx' = [tx EXCEPT ![c] = "none"]
    /\ pend' = [pend EXCEPT ![c] = NoRows]
    /\ ins' = [ins EXCEPT ![c] = NoRows]
    /\ IF tx[c] = "open"
       THEN /\ db' = [t \in Tables |-> (db[t] \ pend[c][t]) \cup ins[c][t]]
            /\ effect' = [effect EXCEPT
                            ![r] = [t \in Tables |->
                                       @[t] \cup ((db[t] \cap pend[c][t]) \ ins[c][t])]]
       ELSE UNCHANGED <<db, effect>>
    /\ UNCHANGED nfail

\* COMMIT or ROLLBACK answered by an error: the backend drops the transaction
EndFails(c) ==
    /\ nfail < MaxFail
    /\ nfail' = nfail + 1
    /\ tx' = [tx EXCEPT ![c] = "none"]
    /\ pend' = [pend EXCEPT ![c] = NoRows]
    /\ ins' = [ins EXCEPT ![c] = NoRows]
    /\ UNCHANGED <<db, effect>>

RollbackOk(c) ==
    /\ tx' = [tx EXCEPT ![c] = "none"]
    /\ pend' = [pend EXCEPT ![c] = NoRows]
    /\ ins' = [ins EXCEPT ![c] = NoRows]
    /\ UNCHANGED <<db, nfail, effect>>

----------------------------------------------------------------------------
(* What a handler does between two awaits *)

Goto(r, label) == pc' = [pc EXCEPT ![r] = label]
Send(r, outcome) == resp' = [resp EXCEPT ![r] = Append(@, outcome)]
Logged(r, events) == log' = [log EXCEPT ![r] = @ \o events]

\* a response object that accepts a second answer
SendOrThrow_again(r, outcome) ==
    resp' = [resp EXCEPT ![r] = Append(@, outcome)]

\* res.status(..) once the headers are sent throws ERR_HTTP_HEADERS_SENT
SendOrThrow(r, outcome) ==
    resp' = [resp EXCEPT ![r] = IF @ = <<>> THEN <<outcome>> ELSE @]

\* an error that leaves the handler reaches the router: it answers 500 unless
\* the headers are already sent
Escapes(r) == SendOrThrow(r, "InternalFailure")

\* a handler that keeps its connection
Release_never(r) == UNCHANGED <<idle, client>>

\* client.release()
Release(r) ==
    /\ idle' = idle \cup {client[r]}
    /\ client' = [client EXCEPT ![r] = 0]

\* client.query(cmd) without await
Enqueue(r, cmd) ==
    queue' = [queue EXCEPT ![client[r]] = Append(@, [cmd |-> cmd, r |-> r])]

FirstAwait(o) ==
    CASE o = "deleteVideoGame" -> "dvg_getPublication"
      [] o = "deleteUser" -> "du_isAdmin"
      [] o = "deletePlatform" -> "dp_begin"
      [] o = "updateVideoGame" -> "uvg_update"
      [] o = "updateUser" -> "uu_update"
      [] o = "createPlatform" -> "cp_begin"
      [] o = "createPlatformWithNewVideoGames" -> "cpv_begin"
      [] o = "createUserWithGames" -> "cug_begin"
      [] OTHER -> "up_begin"

\* const client = await pool.connect()
Connect(r) ==
    /\ pc[r] = "connect"
    /\ \E c \in idle :
        /\ idle' = idle \ {c}
        /\ client' = [client EXCEPT ![r] = c]
    /\ Goto(r, FirstAwait(op[r]))
    /\ Logged(r, <<E("connect", 0)>>)
    /\ UNCHANGED <<db, pend, ins, tx, queue, nfail, effect, pictures,
                   op, arg, upd, pubs, idx, resp, cmt, built, err>>

\* the backend runs the next statement a client issued without await; its
\* error, if any, is a rejected promise nobody handles
BackendStep(c) ==
    /\ queue[c] # <<>>
    /\ LET h == queue[c][1]
       IN  \/ /\ h.cmd = "BEGIN"
              /\ Begin(c)
              /\ UNCHANGED cmt
           \/ /\ h.cmd = "COMMIT"
              /\ CommitOk(h.r, c)
              /\ cmt' = [cmt EXCEPT ![h.r] = "ok"]
           \/ /\ h.cmd = "COMMIT"
              /\ EndFails(c)
              /\ cmt' = [cmt EXCEPT ![h.r] = "failed"]
           \/ /\ h.cmd = "ROLLBACK"
              /\ RollbackOk(c)
              /\ UNCHANGED cmt
           \/ /\ h.cmd = "ROLLBACK"
              /\ EndFails(c)
              /\ UNCHANGED cmt
    /\ queue' = [queue EXCEPT ![c] = Tail(@)]
    /\ UNCHANGED <<idle, pictures, pc, op, arg, upd, client, pubs, idx,
                   resp, log, built, err>>

----------------------------------------------------------------------------
(* deleteVideoGame (controller) *)

VideoGameArgs == {1, 2, 3, NaN}

deleteVideoGame(r) ==
    /\ pc[r] = "idle"
    /\ \E id \in VideoGameArgs :
        /\ op' = [op EXCEPT ![r] = "deleteVideoGame"]
        /\ arg' = [arg EXCEPT ![r] = id]
        /\ IF id = NaN
           THEN Goto(r, "done") /\ Send(r, "BadRequest")
           ELSE Goto(r, "connect") /\ UNCHANGED resp
    /\ UNCHANGED <<db, pend, ins, tx, queue, idle, nfail, effect, pictures,
                   upd, client, pubs, idx, log, cmt, built, err>>

\* catch (error) { client.query("ROLLBACK"); res.status(500)...} finally
dvg_catch(r, stmt) ==
    /\ Enqueue(r, "ROLLBACK")
    /\ Send(r, "InternalFailure")
    /\ Release(r)
    /\ Goto(r, "done")
    /\ Logged(r, <<E(stmt, 0), E("error", 0), E("ROLLBACK", 0), E("release", 0)>>)
    /\ UNCHANGED <<pubs, idx, cmt>>

dvg_getPublication(r) ==
    /\ pc[r] = "dvg_getPublication"
    /\ LET c == client[r]
           rows == {p \in Visible(c, "publication") : p.video_game_id = arg[r]}
       IN  /\ Ready(c)
           /\ \/ /\ SelectOk(c)
                 /\ rows = {}
                 /\ Send(r, "NotFound")
                 /\ Release(r)
                 /\ Goto(r, "done")
                 /\ Logged(r, <<E("getPublication", 0), E("release", 0)>>)
                 /\ UNCHANGED <<queue, pubs, idx, cmt>>
              \/ /\ SelectOk(c)
                 /\ rows # {}
                 /\ pubs' = [pubs EXCEPT ![r] = Ascending({p.id : p \in rows})]
                 /\ idx' = [idx EXCEPT ![r] = 1]
                 /\ Enqueue(r, "BEGIN")
                 /\ Goto(r, "dvg_deleteGames")
                 /\ Logged(r, <<E("getPublication", 0), E("BEGIN", 0)>>)
                 /\ UNCHANGED <<idle, client, resp, cmt>>
              \/ /\ StmtFails(c, FALSE)
                 /\ dvg_catch(r, "getPublication")
    /\ UNCHANGED <<pictures, op, arg, upd, built, err>>

\* the loop body without its first statement
dvg_deleteGames_skipped(r) ==
    /\ pc[r] = "dvg_deleteGames"
    /\ Goto(r, "dvg_deletePublication")
    /\ UNCHANGED <<db, pend, ins, tx, queue, idle, nfail, effect, pictures,
                   op, arg, upd, client, pubs, idx, resp, log, cmt, built, err>>

dvg_deleteGames(r) ==
    /\ pc[r] = "dvg_deleteGames"
    /\ LET c == client[r]
           id == pubs[r][idx[r]]
           rows == {g \in Visible(c, "game") : g.publication_id = id}
       IN  /\ Ready(c)
           /\ ~Waits(c, "game", rows)
           /\ \/ /\ DeleteOk(r, c, "game", rows)
                 /\ Goto(r, "dvg_deletePublication")
                 /\ Logged(r, <<E("deleteGamesFromPublication", id)>>)
                 /\ UNCHANGED <<queue, idle, client, pubs, idx, resp, cmt>>
              \/ /\ StmtFails(c, Referenced(c, "game", rows))
                 /\ dvg_catch(r, "deleteGamesFromPublication")
    /\ UNCHANGED <<pictures, op, arg, upd, built, err>>

dvg_deletePublication(r) ==
    /\ pc[r] = "dvg_deletePublication"
    /\ LET c == client[r]
           id == pubs[r][idx[r]]
           rows == {p \in Visible(c, "publication") : p.id = id}
       IN  /\ Ready(c)
           /\ ~Waits(c, "publication", rows)
           /\ \/ /\ DeleteOk(r, c, "publication", rows)
                 /\ IF idx[r] < Len(pubs[r])
                    THEN /\ idx' = [idx EXCEPT ![r] = @ + 1]
                         /\ Goto(r, "dvg_deleteGames")
                    ELSE /\ UNCHANGED idx
                         /\ Goto(r, "dvg_deleteCategories")
                 /\ Logged(r, <<E("deletePublication", id)>>)
                 /\ UNCHANGED <<queue, idle, client, pubs, resp, cmt>>
              \/ /\ StmtFails(c, Referenced(c, "publication", rows))
                 /\ dvg_catch(r, "deletePublication")
    /\ UNCHANGED <<pictures, op, arg, upd, built, err>>

dvg_deleteCategories(r) ==
    /\ pc[r] = "dvg_deleteCategories"
    /\ LET c == client[r]
           rows == {l \in Visible(c, "category") : l.video_game_id = arg[r]}
       IN  /\ Ready(c)
           /\ ~Waits(c, "category", rows)
           /\ \/ /\ DeleteOk(r, c, "category", rows)
                 /\ Goto(r, "dvg_deleteVideoGame")
                 /\ Logged(r, <<E("deleteCategoriesFromVideoGame", 0)>>)
                 /\ UNCHANGED <<queue, idle, client, pubs, idx, resp, cmt>>
              \/ /\ StmtFails(c, Referenced(c, "category", rows))
                 /\ dvg_catch(r, "deleteCategoriesFromVideoGame")
    /\ UNCHANGED <<pictures, op, arg, upd, built, err>>

\* await VideoGameModel.deleteVideoGame; client.query("COMMIT"); 204; release
dvg_deleteVideoGame(r) ==
    /\ pc[r] = "dvg_deleteVideoGame"
    /\ LET c == client[r]
           rows == {v \in Visible(c, "video_game") : v = arg[r]}
       IN  /\ Ready(c)
           /\ ~Waits(c, "video_game", rows)
           /\ \/ /\ DeleteOk(r, c, "video_game", rows)
                 /\ Enqueue(r, "COMMIT")
                 /\ cmt' = [cmt EXCEPT ![r] = "issued"]
                 /\ Send(r, "Success")
                 /\ Release(r)
                 /\ Goto(r, "done")
                 /\ Logged(r, <<E("deleteVideoGame", Cardinality(rows)),
                                E("COMMIT", 0), E("release", 0)>>)
                 /\ UNCHANGED <<pubs, idx>>
              \/ /\ StmtFails(c, Referenced(c, "video_game", rows))
                 /\ dvg_catch(r, "deleteVideoGame")
    /\ UNCHANGED <<pictures, op, arg, upd, built, err>>

----------------------------------------------------------------------------
(* deleteUser (controller) *)

UserArgs == {1, 2, 3, NaN}

deleteUser(r) ==
    /\ pc[r] = "idle"
    /\ \E id \in UserArgs :
        /\ op' = [op EXCEPT ![r] = "deleteUser"]
        /\ arg' = [arg EXCEPT ![r] = id]
        /\ IF id = NaN
           THEN Goto(r, "done") /\ Send(r, "BadRequest")
           ELSE Goto(r, "connect") /\ UNCHANGED resp
    /\ UNCHANGED <<db, pend, ins, tx, queue, idle, nfail, effect, pictures,
                   upd, client, pubs, idx, log, cmt, built, err>>

\* a rejected await inside try: control moves to catch, which awaits ROLLBACK
du_throw(r, stmt) ==
    /\ Goto(r, "du_catch")
    /\ Logged(r, <<E(stmt, 0), E("error", 0)>>)
    /\ UNCHANGED <<queue, idle, client, pubs, idx, resp>>

\* the handler without its admin guard
du_isAdmin_skipped(r) ==
    /\ pc[r] = "du_isAdmin"
    /\ Goto(r, "du_begin")
    /\ UNCHANGED <<db, pend, ins, tx, queue, idle, nfail, effect, pictures,
                   op, arg, upd, client, pubs, idx, resp, log, cmt, built, err>>

du_isAdmin(r) ==
    /\ pc[r] = "du_isAdmin"
    /\ LET c == client[r]
           no == Cardinality({u \in Visible(c, "user") :
                                  u.id = arg[r] /\ u.is_admin = TRUE})
       IN  /\ Ready(c)
           /\ \/ /\ SelectOk(c)
                 /\ no > 0
                 /\ Send(r, "DeleteForbidden")
                 /\ Release(r)
                 /\ Goto(r, "done")
                 /\ Logged(r, <<E("isAdmin", 0), E("release", 0)>>)
                 /\ UNCHANGED <<queue, pubs, idx, cmt>>
              \/ /\ SelectOk(c)
                 /\ ~(no > 0)
                 /\ Goto(r, "du_begin")
                 /\ Logged(r, <<E("isAdmin", 0)>>)
                 /\ UNCHANGED <<queue, idle, client, pubs, idx, resp, cmt>>
              \/ /\ StmtFails(c, FALSE)
                 /\ du_throw(r, "isAdmin")
                 /\ UNCHANGED cmt
    /\ UNCHANGED <<pictures, op, arg, upd, built, err>>

\* await client.query("BEGIN")
du_begin(r) ==
    /\ pc[r] = "du_begin"
    /\ Ready(client[r])
    /\ Begin(client[r])
    /\ Goto(r, "du_deleteGamesFromUser")
    /\ Logged(r, <<E("BEGIN", 0)>>)
    /\ UNCHANGED <<queue, idle, pictures, op, arg, upd, client, pubs, idx,
                   resp, cmt, built, err>>

\* the first cascade statement without its WHERE user_id = $1
du_deleteGamesFromUser_all(r) ==
    /\ pc[r] = "du_deleteGamesFromUser"
    /\ LET c == client[r]
           rows == Visible(c, "game")
       IN  /\ Ready(c)
           /\ ~Waits(c, "game", rows)
           /\ DeleteOk(r, c, "game", rows)
           /\ Goto(r, "du_deleteUser")
           /\ Logged(r, <<E("deleteGamesFromUser", 0)>>)
    /\ UNCHANGED <<queue, idle, client, pubs, idx, resp, pictures, op, arg, upd,
                   cmt, built, err>>

du_deleteGamesFromUser(r) ==
    /\ pc[r] = "du_deleteGamesFromUser"
    /\ LET c == client[r]
           rows == {g \in Visible(c, "game") : g.user_id = arg[r]}
       IN  /\ Ready(c)
           /\ ~Waits(c, "game", rows)
           /\ \/ /\ DeleteOk(r, c, "game", rows)
                 /\ Goto(r, "du_deleteUser")
                 /\ Logged(r, <<E("deleteGamesFromUser", 0)>>)
                 /\ UNCHANGED <<queue, idle, client, pubs, idx, resp>>
              \/ /\ StmtFails(c, Referenced(c, "game", rows))
                 /\ du_throw(r, "deleteGamesFromUser")
    /\ UNCHANGED <<pictures, op, arg, upd, cmt, built, err>>

\* const { rowCount } = await UserDB.deleteUser(client, userId)
du_deleteUser(r) ==
    /\ pc[r] = "du_deleteUser"
    /\ LET c == client[r]
           rows == {u \in Visible(c, "user") : u.id = arg[r]}
           rowCount == Cardinality(rows)
       IN  /\ Ready(c)
           /\ ~Waits(c, "user", rows)
           /\ \/ /\ DeleteOk(r, c, "user", rows)
                 /\ Goto(r, IF rowCount = 0 THEN "du_rollback" ELSE "du_commit")
                 /\ Logged(r, <<E("deleteUser", rowCount)>>)
                 /\ UNCHANGED <<queue, idle, client, pubs, idx, resp>>
              \/ /\ StmtFails(c, Referenced(c, "user", rows))
                 /\ du_throw(r, "deleteUser")
    /\ UNCHANGED <<pictures, op, arg, upd, cmt, built, err>>

\* the zero-rows branch ending its transaction with COMMIT
du_rollback_commits(r) ==
    /\ pc[r] = "du_rollback"
    /\ Ready(client[r])
    /\ CommitOk(r, client[r])
    /\ Send(r, "NotFound")
    /\ Release(r)
    /\ Goto(r, "done")
    /\ Logged(r, <<E("COMMIT", 0), E("release", 0)>>)
    /\ UNCHANGED <<queue, pubs, idx, pictures, op, arg, upd, cmt, built, err>>

\* if (rowCount === 0) { await client.query("ROLLBACK"); res.status(404)..; return }
du_rollback(r) ==
    /\ pc[r] = "du_rollback"
    /\ Ready(client[r])
    /\ \/ /\ RollbackOk(client[r])
          /\ Send(r, "NotFound")
          /\ Release(r)
          /\ Goto(r, "done")
          /\ Logged(r, <<E("ROLLBACK", 0), E("release", 0)>>)
          /\ UNCHANGED <<queue, pubs, idx>>
       \/ /\ EndFails(client[r])
          /\ du_throw(r, "ROLLBACK")
    /\ UNCHANGED <<pictures, op, arg, upd, cmt, built, err>>

\* await client.query("COMMIT"); res.sendStatus(204)
du_commit(r) ==
    /\ pc[r] = "du_commit"
    /\ Ready(client[r])
    /\ \/ /\ CommitOk(r, client[r])
          /\ cmt' = [cmt EXCEPT ![r] = "ok"]
          /\ Send(r, "Success")
          /\ Release(r)
          /\ Goto(r, "done")
          /\ Logged(r, <<E("COMMIT", 0), E("release", 0)>>)
          /\ UNCHANGED <<queue, pubs, idx>>
       \/ /\ EndFails(client[r])
          /\ cmt' = [cmt EXCEPT ![r] = "failed"]
          /\ du_throw(r, "COMMIT")
    /\ UNCHANGED <<pictures, op, arg, upd, built, err>>

\* catch (error) { await client.query("ROLLBACK"); res.sendStatus(500) } finally
du_catch(r) ==
    /\ pc[r] = "du_catch"
    /\ Ready(client[r])
    /\ \/ /\ RollbackOk(client[r])
          /\ SendOrThrow(r, "InternalFailure")
          /\ Logged(r, <<E("ROLLBACK", 0), E("release", 0)>>)
       \/ /\ EndFails(client[r])
          /\ Escapes(r)
          /\ Logged(r, <<E("ROLLBACK", 0), E("error", 0), E("release", 0)>>)
    /\ Release(r)
    /\ Goto(r, "done")
    /\ UNCHANGED <<queue, pictures, op, arg, upd, pubs, idx, cmt, built, err>>

----------------------------------------------------------------------------
(* deletePlatform (controller) *)

PlatformArgs == {"pc", "PC", "XBOX", "WII"}

deletePlatform(r) ==
    /\ pc[r] = "idle"
    /\ \E code \in PlatformArgs :
        /\ op' = [op EXCEPT ![r] = "deletePlatform"]
        /\ arg' = [arg EXCEPT ![r] = ToUpperCase(code)]
    /\ Goto(r, "connect")
    /\ UNCHANGED <<db, pend, ins, tx, queue, idle, nfail, effect, pictures,
                   upd, client, pubs, idx, resp, log, cmt, built, err>>

\* a catch path that removes the image of the platform
dp_throw_deletesImage(r, stmt) ==
    /\ Goto(r, "dp_catch")
    /\ Logged(r, <<E(stmt, 0), E("error", 0)>>)
    /\ pictures' = pictures \ {arg[r]}
    /\ UNCHANGED <<queue, idle, client, pubs, idx, resp>>

dp_throw(r, stmt) ==
    /\ Goto(r, "dp_catch")
    /\ Logged(r, <<E(stmt, 0), E("error", 0)>>)
    /\ UNCHANGED <<queue, idle, client, pubs, idx, resp, pictures>>

dp_begin(r) ==
    /\ pc[r] = "dp_begin"
    /\ Ready(client[r])
    /\ Begin(client[r])
    /\ Goto(r, "dp_getPublication")
    /\ Logged(r, <<E("BEGIN", 0)>>)
    /\ UNCHANGED <<queue, idle, pictures, op, arg, upd, client, pubs, idx,
                   resp, cmt, built, err>>

dp_getPublication(r) ==
    /\ pc[r] = "dp_getPublication"
    /\ LET c == client[r]
           rows == {p \in Visible(c, "publication") : p.platform_code = arg[r]}
       IN  /\ Ready(c)
           /\ \/ /\ SelectOk(c)
                 /\ pubs' = [pubs EXCEPT ![r] = Ascending({p.id : p \in rows})]
                 /\ idx' = [idx EXCEPT ![r] = 1]
                 /\ Goto(r, IF rows = {} THEN "dp_deletePlatform" ELSE "dp_deleteGames")
                 /\ Logged(r, <<E("getPublication", 0)>>)
                 /\ UNCHANGED <<queue, idle, client, resp, pictures>>
              \/ /\ StmtFails(c, FALSE)
                 /\ dp_throw(r, "getPublication")
    /\ UNCHANGED <<op, arg, upd, cmt, built, err>>

\* the loop body without its first statement
dp_deleteGames_skipped(r) ==
    /\ pc[r] = "dp_deleteGames"
    /\ Goto(r, "dp_deletePublication")
    /\ UNCHANGED <<db, pend, ins, tx, queue, idle, nfail, effect, pictures,
                   op, arg, upd, client, pubs, idx, resp, log, cmt, built, err>>

dp_deleteGames(r) ==
    /\ pc[r] = "dp_deleteGames"
    /\ LET c == client[r]
           id == pubs[r][idx[r]]
           rows == {g \in Visible(c, "game") : g.publication_id = id}
       IN  /\ Ready(c)
           /\ ~Waits(c, "game", rows)
           /\ \/ /\ DeleteOk(r, c, "game", rows)
                 /\ Goto(r, "dp_deletePublication")
                 /\ Logged(r, <<E("deleteGamesFromPublication", id)>>)
                 /\ UNCHANGED <<queue, idle, client, pubs, idx, resp, pictures>>
              \/ /\ StmtFails(c, Referenced(c, "game", rows))
                 /\ dp_throw(r, "deleteGamesFromPublication")
    /\ UNCHANGED <<op, arg, upd, cmt, built, err>>

dp_deletePublication(r) ==
    /\ pc[r] = "dp_deletePublication"
    /\ LET c == client[r]
           id == pubs[r][idx[r]]
           rows == {p \in Visible(c, "publication") : p.id = id}
       IN  /\ Ready(c)
           /\ ~Waits(c, "publication", rows)
           /\ \/ /\ DeleteOk(r, c, "publication", rows)
                 /\ IF idx[r] < Len(pubs[r])
                    THEN /\ idx' = [idx EXCEPT ![r] = @ + 1]
                         /\ Goto(r, "dp_deleteGames")
                    ELSE /\ UNCHANGED idx
                         /\ Goto(r, "dp_deletePlatform")
                 /\ Logged(r, <<E("deletePublication", id)>>)
                 /\ UNCHANGED <<queue, idle, client, pubs, resp, pictures>>
              \/ /\ StmtFails(c, Referenced(c, "publication", rows))
                 /\ dp_throw(r, "deletePublication")
    /\ UNCHANGED <<op, arg, upd, cmt, built, err>>

\* const { rowCount } = await PlatformModel.deletePlatform(client, code);
\* if (rowCount === 0) { res.status(404)...; await client.query("ROLLBACK"); return }
dp_deletePlatform(r) ==
    /\ pc[r] = "dp_deletePlatform"
    /\ LET c == client[r]
           rows == {p \in Visible(c, "platform") : p = arg[r]}
           rowCount == Cardinality(rows)
       IN  /\ Ready(c)
           /\ ~Waits(c, "platform", rows)
           /\ \/ /\ DeleteOk(r, c, "platform", rows)
                 /\ rowCount = 0
                 /\ Send(r, "NotFound")
                 /\ Goto(r, "dp_rollback")
                 /\ Logged(r, <<E("deletePlatform", rowCount)>>)
                 /\ UNCHANGED <<queue, idle, client, pubs, idx, pictures>>
              \/ /\ DeleteOk(r, c, "platform", rows)
                 /\ rowCount # 0
                 /\ Goto(r, "dp_commit")
                 /\ Logged(r, <<E("deletePlatform", rowCount)>>)
                 /\ UNCHANGED <<queue, idle, client, pubs, idx, resp, pictures>>
              \/ /\ StmtFails(c, Referenced(c, "platform", rows))
                 /\ dp_throw(r, "deletePlatform")
    /\ UNCHANGED <<op, arg, upd, cmt, built, err>>

dp_rollback(r) ==
    /\ pc[r] = "dp_rollback"
    /\ Ready(client[r])
    /\ \/ /\ RollbackOk(client[r])
          /\ Release(r)
          /\ Goto(r, "done")
          /\ Logged(r, <<E("ROLLBACK", 0), E("release", 0)>>)
          /\ UNCHANGED <<queue, pubs, idx, resp, pictures>>
       \/ /\ EndFails(client[r])
          /\ dp_throw(r, "ROLLBACK")
    /\ UNCHANGED <<op, arg, upd, cmt, built, err>>

\* deleteImage(code, destFolderPlatform)
deleteImage(r) == pictures' = pictures \ {arg[r]}

\* await client.query("COMMIT"); deleteImage(..); res.sendStatus(204)
dp_commit(r) ==
    /\ pc[r] = "dp_commit"
    /\ Ready(client[r])
    /\ \/ /\ CommitOk(r, client[r])
          /\ cmt' = [cmt EXCEPT ![r] = "ok"]
          /\ deleteImage(r)
          /\ Send(r, "Success")
          /\ Release(r)
          /\ Goto(r, "done")
          /\ Logged(r, <<E("COMMIT", 0), E("deleteImage", 0), E("release", 0)>>)
          /\ UNCHANGED <<queue, pubs, idx>>
       \/ /\ EndFails(client[r])
          /\ cmt' = [cmt EXCEPT ![r] = "failed"]
          /\ dp_throw(r, "COMMIT")
    /\ UNCHANGED <<op, arg, upd, built, err>>

\* catch (error) { await client.query("ROLLBACK"); res.sendStatus(500) } finally
dp_catch(r) ==
    /\ pc[r] = "dp_catch"
    /\ Ready(client[r])
    /\ \/ /\ RollbackOk(client[r])
          /\ SendOrThrow(r, "InternalFailure")
          /\ Logged(r, <<E("ROLLBACK", 0), E("release", 0)>>)
       \/ /\ EndFails(client[r])
          /\ Escapes(r)
          /\ Logged(r, <<E("ROLLBACK", 0), E("error", 0), E("release", 0)>>)
    /\ Release(r)
    /\ Goto(r, "done")
    /\ UNCHANGED <<queue, pictures, op, arg, upd, pubs, idx, cmt, built, err>>

----------------------------------------------------------------------------
(* The delete cascades, two requests at a time *)

InitRequests ==
    /\ pend = [c \in Conns |-> NoRows]
    /\ ins = [c \in Conns |-> NoRows]
    /\ tx = [c \in Conns |-> "none"]
    /\ queue = [c \in Conns |-> <<>>]
    /\ idle = Conns
    /\ nfail = 0
    /\ effect = [r \in Req |-> NoRows]
    /\ pictures = {"PC", "PS5", "XBOX"}
    /\ pc = [r \in Req |-> "idle"]
    /\ op = [r \in Req |-> "none"]
    /\ arg = [r \in Req |-> 0]
    /\ upd = [r \in Req |-> NoBody]
    /\ client = [r \in Req |-> 0]
    /\ pubs = [r \in Req |-> <<>>]
    /\ idx = [r \in Req |-> 0]
    /\ resp = [r \in Req |-> <<>>]
    /\ log = [r \in Req |-> <<>>]
    /\ cmt = [r \in Req |-> "none"]
    /\ err = [r \in Req |-> "none"]
    /\ built = NoStatement

Init ==
    /\ \E n \in 0..MaxPub : \E g \in 0..Min(MaxGame, 2 * n) : db = InitialStore(n, g)
    /\ InitRequests

Next ==
    \/ \E r \in Req : deleteVideoGame(r)
    \/ \E r \in Req : deleteUser(r)
    \/ \E r \in Req : deletePlatform(r)
    \/ \E r \in Req : Connect(r)
    \/ \E c \in Conns : BackendStep(c)
    \/ \E r \in Req : dvg_getPublication(r)
    \/ \E r \in Req : dvg_deleteGames(r)
    \/ \E r \in Req : dvg_deletePublication(r)
    \/ \E r \in Req : dvg_deleteCategories(r)
    \/ \E r \in Req : dvg_deleteVideoGame(r)
    \/ \E r \in Req : du_isAdmin(r)
    \/ \E r \in Req : du_begin(r)
    \/ \E r \in Req : du_deleteGamesFromUser(r)
    \/ \E r \in Req : du_deleteUser(r)
    \/ \E r \in Req : du_rollback(r)
    \/ \E r \in Req : du_commit(r)
    \/ \E r \in Req : du_catch(r)
    \/ \E r \in Req : dp_begin(r)
    \/ \E r \in Req : dp_getPublication(r)
    \/ \E r \in Req : dp_deleteGames(r)
    \/ \E r \in Req : dp_deletePublication(r)
    \/ \E r \in Req : dp_deletePlatform(r)
    \/ \E r \in Req : dp_rollback(r)
    \/ \E r \in Req : dp_commit(r)
    \/ \E r \in Req : dp_catch(r)

Spec == Init /\ [][Next]_vars

----------------------------------------------------------------------------
(* updateVideoGame (controller) *)

Body(fields) == [f \in DOMAIN NoBody |-> IF f \in DOMAIN fields THEN fields[f] ELSE NoBody[f]]

updateVideoGame(r) ==
    /\ pc[r] = "idle"
    /\ \E id \in {1, 3, NaN}, name \in {Undefined, "a"}, description \in {Undefined, "a"} :
        /\ op' = [op EXCEPT ![r] = "updateVideoGame"]
        /\ arg' = [arg EXCEPT ![r] = id]
        /\ upd' = [upd EXCEPT ![r] = Body([name |-> name, description |-> description])]
        /\ IF id = NaN
           THEN Goto(r, "done") /\ Send(r, "BadRequest")
           ELSE Goto(r, "connect") /\ UNCHANGED resp
    /\ UNCHANGED <<db, pend, ins, tx, queue, idle, nfail, effect, pictures,
                   client, pubs, idx, log, cmt, built, err>>

\* const { rowCount } = await VideoGameModel.updateVideoGame(client, id, videoGame)
uvg_update(r) ==
    /\ pc[r] = "uvg_update"
    /\ LET c == client[r]
           stmt == VideoGameModel_updateVideoGame(arg[r], upd[r])
           rows == {v \in Visible(c, "video_game") : v = arg[r]}
       IN  /\ built' = [fn |-> "updateVideoGame", id |-> arg[r], vals |-> upd[r],
                        stmt |-> stmt]
           /\ \/ /\ stmt.threw
                 /\ UNCHANGED <<db, pend, ins, tx, nfail, effect>>
                 /\ Send(r, "InternalFailure")
                 /\ Logged(r, <<E("error", 0), E("release", 0)>>)
              \/ /\ ~stmt.threw
                 /\ Ready(c)
                 /\ ~Waits(c, "video_game", rows)
                 /\ UpdateOk(r, c, "video_game", rows, rows)
                 /\ Send(r, IF rows = {} THEN "NotFound" ELSE "Success")
                 /\ Logged(r, <<E("UPDATE", Cardinality(rows)), E("release", 0)>>)
              \/ /\ ~stmt.threw
                 /\ Ready(c)
                 /\ StmtFails(c, FALSE)
                 /\ Send(r, "InternalFailure")
                 /\ Logged(r, <<E("UPDATE", 0), E("error", 0), E("release", 0)>>)
    /\ Release(r)
    /\ Goto(r, "done")
    /\ UNCHANGED <<queue, pictures, op, arg, upd, pubs, idx, cmt, err>>

----------------------------------------------------------------------------
(* updateUser (controller), reached from updateUserFromAdmin / updateMyAccount *)

UserKeys == {"username", "email", "firstname", "lastname", "password", "is_admin"}

\* Object.keys(body) of the validated body
Keys(body, among) == {f \in among : body[f] # Undefined}

updateUser(r) ==
    /\ pc[r] = "idle"
    /\ \E id \in {1, 2, 3, NaN}, username \in {Undefined, "bob"},
          password \in {Undefined, "a"}, is_admin \in {Undefined, "true"} :
        LET user == Body([username |-> username, password |-> password,
                          is_admin |-> is_admin])
        IN  /\ op' = [op EXCEPT ![r] = "updateUser"]
            /\ arg' = [arg EXCEPT ![r] = id]
            /\ upd' = [upd EXCEPT ![r] = user]
            /\ IF id = NaN
               THEN Goto(r, "done") /\ Send(r, "BadRequest")
               ELSE IF Cardinality(Keys(user, UserKeys)) = 0
               THEN Goto(r, "done") /\ Send(r, "NoFieldsToUpdate")
               ELSE Goto(r, "connect") /\ UNCHANGED resp
    /\ UNCHANGED <<db, pend, ins, tx, queue, idle, nfail, effect, pictures,
                   client, pubs, idx, log, cmt, built, err>>

\* const { rowCount } = await UserDB.updateUser(client, userId, user)
uu_update(r) ==
    /\ pc[r] = "uu_update"
    /\ LET c == client[r]
           rows == {u \in Visible(c, "user") : u.id = arg[r]}
           new == {[u EXCEPT !.username = IF upd[r].username # Undefined
                                          THEN upd[r].username ELSE @,
                             !.is_admin = IF upd[r].is_admin # Undefined
                                          THEN upd[r].is_admin = "true" ELSE @] :
                   u \in rows}
           unique == \E u \in new : \E v \in Visible(c, "user") \ rows :
                         v.username = u.username
       IN  /\ Ready(c)
           /\ ~Waits(c, "user", rows)
           /\ \/ /\ ~unique
                 /\ UpdateOk(r, c, "user", rows, new)
                 /\ Send(r, IF rows = {} THEN "NotFound" ELSE "Success")
                 /\ Logged(r, <<E("UPDATE", Cardinality(rows)), E("release", 0)>>)
              \/ /\ StmtFails(c, unique)
                 /\ Send(r, IF unique THEN "DuplicateEntry" ELSE "InternalFailure")
                 /\ Logged(r, <<E("UPDATE", 0), E("error", 0), E("release", 0)>>)
    /\ Release(r)
    /\ Goto(r, "done")
    /\ UNCHANGED <<queue, pictures, op, arg, upd, pubs, idx, cmt, built, err>>

----------------------------------------------------------------------------
(* updatePlatform (controller) *)

PlatformKeys == {"code", "description", "abbreviation"}

updatePlatform(r) ==
    /\ pc[r] = "idle"
    /\ \E code \in PlatformArgs, newCode \in {Undefined, "ps5", "neo"},
          description \in {Undefined, "a"}, picture \in {"none", "png", "txt"} :
        LET updateValues ==
                Body([code |-> IF newCode = Undefined THEN Undefined
                               ELSE ToUpperCase(newCode),
                      description |-> description, picture |-> picture])
        IN  /\ op' = [op EXCEPT ![r] = "updatePlatform"]
            /\ arg' = [arg EXCEPT ![r] = ToUpperCase(code)]
            /\ upd' = [upd EXCEPT ![r] = updateValues]
            /\ IF Cardinality(Keys(updateValues, PlatformKeys)) = 0
               THEN Goto(r, "done") /\ Send(r, "NoFieldsToUpdate")
               ELSE Goto(r, "connect") /\ UNCHANGED resp
    /\ UNCHANGED <<db, pend, ins, tx, queue, idle, nfail, effect, pictures,
                   client, pubs, idx, log, cmt, built, err>>

up_throw(r, stmt, kind) ==
    /\ Goto(r, "up_catch")
    /\ err' = [err EXCEPT ![r] = kind]
    /\ Logged(r, <<E(stmt, 0), E("error", 0)>>)
    /\ UNCHANGED <<queue, idle, client, pubs, idx, resp>>

up_begin(r) ==
    /\ pc[r] = "up_begin"
    /\ Ready(client[r])
    /\ Begin(client[r])
    /\ Goto(r, "up_update")
    /\ Logged(r, <<E("BEGIN", 0)>>)
    /\ UNCHANGED <<queue, idle, pictures, op, arg, upd, client, pubs, idx,
                   resp, cmt, built, err>>

\* modifyImageName(code, newCode, destFolderPlatform)
modifyImageName(code, newCode) ==
    pictures' = IF code \in pictures THEN (pictures \ {code}) \cup {newCode} ELSE pictures

\* const { rowCount } = await PlatformModel.updatePlatform(client, code, updateValues)
\* and what follows it up to the next await
up_update(r) ==
    /\ pc[r] = "up_update"
    /\ LET c == client[r]
           code == arg[r]
           rows == {p \in Visible(c, "platform") : p = code}
           moved == rows # {} /\ upd[r].code # Undefined /\ upd[r].code # code
           new == IF moved THEN {upd[r].code} ELSE rows
           unique == moved /\ upd[r].code \in Visible(c, "platform")
           fk == moved /\ Referenced(c, "platform", rows)
       IN  /\ Ready(c)
           /\ ~Waits(c, "platform", rows)
           /\ \/ /\ ~unique /\ ~fk
                 /\ UpdateOk(r, c, "platform", rows, new)
                 /\ rows = {}
                 /\ Send(r, "NotFound")
                 /\ Goto(r, "up_rollback")
                 /\ Logged(r, <<E("UPDATE", 0)>>)
                 /\ UNCHANGED <<pictures, err>>
              \/ /\ ~unique /\ ~fk
                 /\ UpdateOk(r, c, "platform", rows, new)
                 /\ rows # {}
                 /\ upd[r].picture # "none"
                 /\ pictures' = pictures \ {code}
                 /\ Goto(r, "up_saveImage")
                 /\ Logged(r, <<E("UPDATE", 1), E("deleteImage", 0)>>)
                 /\ UNCHANGED <<resp, err>>
              \/ /\ ~unique /\ ~fk
                 /\ UpdateOk(r, c, "platform", rows, new)
                 /\ rows # {}
                 /\ upd[r].picture = "none"
                 /\ IF code # upd[r].code
                    THEN modifyImageName(code, upd[r].code)
                    ELSE UNCHANGED pictures
                 /\ Goto(r, "up_commit")
                 /\ Logged(r, <<E("UPDATE", 1)>> \o
                              (IF code # upd[r].code THEN <<E("modifyImageName", 0)>>
                               ELSE <<>>))
                 /\ UNCHANGED <<resp, err>>
              \/ /\ StmtFails(c, unique \/ fk)
                 /\ Goto(r, "up_catch")
                 /\ err' = [err EXCEPT ![r] = IF unique THEN "unique"
                                              ELSE IF fk THEN "fk" ELSE "other"]
                 /\ Logged(r, <<E("UPDATE", 0), E("error", 0)>>)
                 /\ UNCHANGED <<pictures, resp>>
    /\ UNCHANGED <<queue, idle, client, op, arg, upd, pubs, idx, cmt, built>>

\* await saveImageToPng(req.files.picture[0].buffer, updateValues.code, ..)
up_saveImage(r) ==
    /\ pc[r] = "up_saveImage"
    /\ \/ /\ upd[r].picture = "png"
          /\ pictures' = pictures \cup {upd[r].code}
          /\ Goto(r, "up_commit")
          /\ Logged(r, <<E("saveImageToPng", 0)>>)
          /\ UNCHANGED <<queue, idle, client, pubs, idx, resp, err>>
       \/ /\ upd[r].picture # "png"
          /\ up_throw(r, "saveImageToPng", "format")
          /\ UNCHANGED pictures
    /\ UNCHANGED <<db, pend, ins, tx, nfail, effect, op, arg, upd, cmt, built>>

up_rollback(r) ==
    /\ pc[r] = "up_rollback"
    /\ Ready(client[r])
    /\ \/ /\ RollbackOk(client[r])
          /\ Release(r)
          /\ Goto(r, "done")
          /\ Logged(r, <<E("ROLLBACK", 0), E("release", 0)>>)
          /\ UNCHANGED <<queue, pubs, idx, resp, err>>
       \/ /\ EndFails(client[r])
          /\ up_throw(r, "ROLLBACK", "other")
    /\ UNCHANGED <<pictures, op, arg, upd, cmt, built>>

up_commit(r) ==
    /\ pc[r] = "up_commit"
    /\ Ready(client[r])
    /\ \/ /\ CommitOk(r, client[r])
          /\ cmt' = [cmt EXCEPT ![r] = "ok"]
          /\ Send(r, "Success")
          /\ Release(r)
          /\ Goto(r, "done")
          /\ Logged(r, <<E("COMMIT", 0), E("release", 0)>>)
          /\ UNCHANGED <<queue, pubs, idx, err>>
       \/ /\ EndFails(client[r])
          /\ cmt' = [cmt EXCEPT ![r] = "failed"]
          /\ up_throw(r, "COMMIT", "other")
    /\ UNCHANGED <<pictures, op, arg, upd, built>>

\* the failure classifier of the catch block
Classify(kind) ==
    CASE kind = "unique" -> "DuplicateEntry"
      [] kind = "format" -> "InvalidArtifactFormat"
      [] OTHER -> "InternalFailure"

up_catch(r) ==
    /\ pc[r] = "up_catch"
    /\ Ready(client[r])
    /\ \/ /\ RollbackOk(client[r])
          /\ SendOrThrow(r, Classify(err[r]))
          /\ Logged(r, <<E("ROLLBACK", 0), E("release", 0)>>)
       \/ /\ EndFails(client[r])
          /\ Escapes(r)
          /\ Logged(r, <<E("ROLLBACK", 0), E("error", 0), E("release", 0)>>)
    /\ Release(r)
    /\ Goto(r, "done")
    /\ UNCHANGED <<queue, pictures, op, arg, upd, pubs, idx, cmt, built, err>>

----------------------------------------------------------------------------
(* The update handlers, two requests at a time *)

NextUpdate ==
    \/ \E r \in Req : updateVideoGame(r)
    \/ \E r \in Req : updateUser(r)
    \/ \E r \in Req : updatePlatform(r)
    \/ \E r \in Req : Connect(r)
    \/ \E r \in Req : uvg_update(r)
    \/ \E r \in Req : uu_update(r)
    \/ \E r \in Req : up_begin(r)
    \/ \E r \in Req : up_update(r)
    \/ \E r \in Req : up_saveImage(r)
    \/ \E r \in Req : up_rollback(r)
    \/ \E r \in Req : up_commit(r)
    \/ \E r \in Req : up_catch(r)

\* no publication at all, or one publication on PC that keeps its platform row referenced
InitUpdate ==
    /\ \E n \in 0..1 : db = InitialStore(n, n)
    /\ InitRequests

SpecUpdate == InitUpdate /\ [][NextUpdate]_vars

----------------------------------------------------------------------------
(* createPlatform (controller) *)

CreateArgs == {"neo", "pc"}

createPlatform(r) ==
    /\ pc[r] = "idle"
    /\ \E code \in CreateArgs, picture \in {"none", "png", "txt"} :
        /\ op' = [op EXCEPT ![r] = "createPlatform"]
        /\ arg' = [arg EXCEPT ![r] = ToUpperCase(code)]
        /\ upd' = [upd EXCEPT ![r] = Body([code |-> ToUpperCase(code),
                                           description |-> "a", abbreviation |-> "a",
                                           picture |-> picture])]
        /\ IF picture = "none"
           THEN Goto(r, "done") /\ Send(r, "BadRequest")
           ELSE Goto(r, "connect") /\ UNCHANGED resp
    /\ UNCHANGED <<db, pend, ins, tx, queue, idle, nfail, effect, pictures,
                   client, pubs, idx, log, cmt, built, err>>

cp_throw(r, stmt, kind) ==
    /\ Goto(r, "cp_catch")
    /\ err' = [err EXCEPT ![r] = kind]
    /\ Logged(r, <<E(stmt, 0), E("error", 0)>>)
    /\ UNCHANGED <<queue, idle, client, pubs, idx, resp>>

cp_begin(r) ==
    /\ pc[r] = "cp_begin"
    /\ Ready(client[r])
    /\ Begin(client[r])
    /\ Goto(r, "cp_createPlatform")
    /\ Logged(r, <<E("BEGIN", 0)>>)
    /\ UNCHANGED <<queue, idle, pictures, op, arg, upd, client, pubs, idx,
                   resp, cmt, built, err>>

\* await PlatformModel.createPlatform(client, code, description, abbreviation)
cp_createPlatform(r) ==
    /\ pc[r] = "cp_createPlatform"
    /\ LET c == client[r]
           unique == arg[r] \in Visible(c, "platform")
       IN  /\ Ready(c)
           /\ ~InsertWaits(c, "platform", {arg[r]})
           /\ \/ /\ ~unique
                 /\ InsertOk(r, c, "platform", {arg[r]})
                 /\ Goto(r, "cp_saveImage")
                 /\ Logged(r, <<E("createPlatform", 1)>>)
                 /\ UNCHANGED <<queue, idle, client, pubs, idx, resp, err>>
              \/ /\ StmtFails(c, unique)
                 /\ cp_throw(r, "createPlatform", IF unique THEN "unique" ELSE "other")
    /\ UNCHANGED <<pictures, op, arg, upd, cmt, built>>

\* await saveImageToPng(req.files.picture[0].buffer, code, destFolderPlatform)
cp_saveImage(r) ==
    /\ pc[r] = "cp_saveImage"
    /\ \/ /\ upd[r].picture = "png"
          /\ pictures' = pictures \cup {arg[r]}
          /\ Goto(r, "cp_commit")
          /\ Logged(r, <<E("saveImageToPng", 0)>>)
          /\ UNCHANGED <<queue, idle, client, pubs, idx, resp, err>>
       \/ /\ upd[r].picture # "png"
          /\ cp_throw(r, "saveImageToPng", "format")
          /\ UNCHANGED pictures
    /\ UNCHANGED <<db, pend, ins, tx, nfail, effect, op, arg, upd, cmt, built>>

\* await client.query("COMMIT"); res.sendStatus(201)
cp_commit(r) ==
    /\ pc[r] = "cp_commit"
    /\ Ready(client[r])
    /\ \/ /\ CommitOk(r, client[r])
          /\ cmt' = [cmt EXCEPT ![r] = "ok"]
          /\ Send(r, "Success")
          /\ Release(r)
          /\ Goto(r, "done")
          /\ Logged(r, <<E("COMMIT", 0), E("release", 0)>>)
          /\ UNCHANGED <<queue, pubs, idx, err>>
       \/ /\ EndFails(client[r])
          /\ cmt' = [cmt EXCEPT ![r] = "failed"]
          /\ cp_throw(r, "COMMIT", "other")
    /\ UNCHANGED <<pictures, op, arg, upd, built>>

\* catch (error) { await client.query("ROLLBACK"); <classify> } finally
cp_catch(r) ==
    /\ pc[r] = "cp_catch"
    /\ Ready(client[r])
    /\ \/ /\ RollbackOk(client[r])
          /\ SendOrThrow(r, Classify(err[r]))
          /\ Logged(r, <<E("ROLLBACK", 0), E("release", 0)>>)
       \/ /\ EndFails(client[r])
          /\ Escapes(r)
          /\ Logged(r, <<E("ROLLBACK", 0), E("error", 0), E("release", 0)>>)
    /\ Release(r)
    /\ Goto(r, "done")
    /\ UNCHANGED <<queue, pictures, op, arg, upd, pubs, idx, cmt, built, err>>

----------------------------------------------------------------------------
(* createPlatformWithNewVideoGames (controller) *)

MaxNew == 2        \* video games sent along with the new platform

\* idx keeps the number of video games of the request
createPlatformWithNewVideoGames(r) ==
    /\ pc[r] = "idle"
    /\ \E code \in CreateArgs, platformPicture \in {"none", "png"},
          n \in 0..MaxNew, videoGamesPictures \in 0..MaxNew :
        /\ op' = [op EXCEPT ![r] = "createPlatformWithNewVideoGames"]
        /\ arg' = [arg EXCEPT ![r] = ToUpperCase(code)]
        /\ upd' = [upd EXCEPT ![r] = Body([code |-> ToUpperCase(code),
                                           description |-> "a", abbreviation |-> "a",
                                           picture |-> platformPicture])]
        /\ idx' = [idx EXCEPT ![r] = n]
        /\ IF platformPicture = "none" \/ videoGamesPictures # n
           THEN Goto(r, "done") /\ Send(r, "BadRequest")
           ELSE Goto(r, "connect") /\ UNCHANGED resp
    /\ UNCHANGED <<db, pend, ins, tx, queue, idle, nfail, effect, pictures,
                   client, pubs, log, cmt, built, err>>

cpv_begin(r) ==
    /\ pc[r] = "cpv_begin"
    /\ Ready(client[r])
    /\ Begin(client[r])
    /\ Goto(r, "cpv_createPlatform")
    /\ Logged(r, <<E("BEGIN", 0)>>)
    /\ UNCHANGED <<queue, idle, pictures, op, arg, upd, client, pubs, idx,
                   resp, cmt, built, err>>

\* await PlatformModel.createPlatform(..); then the argument picture.buffer of
\* saveImageToPng is evaluated: `picture` is declared nowhere, a ReferenceError
\* is thrown and control moves to the catch block
cpv_createPlatform(r) ==
    /\ pc[r] = "cpv_createPlatform"
    /\ LET c == client[r]
           unique == arg[r] \in Visible(c, "platform")
       IN  /\ Ready(c)
           /\ ~InsertWaits(c, "platform", {arg[r]})
           /\ \/ /\ ~unique
                 /\ InsertOk(r, c, "platform", {arg[r]})
                 /\ err' = [err EXCEPT ![r] = "reference"]
                 /\ Logged(r, <<E("createPlatform", 1), E("error", 0)>>)
              \/ /\ StmtFails(c, unique)
                 /\ err' = [err EXCEPT ![r] = IF unique THEN "unique" ELSE "other"]
                 /\ Logged(r, <<E("createPlatform", 0), E("error", 0)>>)
    /\ Goto(r, "cpv_catch")
    /\ UNCHANGED <<queue, idle, pictures, op, arg, upd, client, pubs, idx,
                   resp, cmt, built>>

\* a catch block that ends the transaction with COMMIT
cpv_catch_commits(r) ==
    /\ pc[r] = "cpv_catch"
    /\ Ready(client[r])
    /\ CommitOk(r, client[r])
    /\ SendOrThrow(r, Classify(err[r]))
    /\ Logged(r, <<E("COMMIT", 0), E("release", 0)>>)
    /\ Release(r)
    /\ Goto(r, "done")
    /\ UNCHANGED <<queue, pictures, op, arg, upd, pubs, idx, cmt, built, err>>

cpv_catch(r) ==
    /\ pc[r] = "cpv_catch"
    /\ Ready(client[r])
    /\ \/ /\ RollbackOk(client[r])
          /\ SendOrThrow(r, Classify(err[r]))
          /\ Logged(r, <<E("ROLLBACK", 0), E("release", 0)>>)
       \/ /\ EndFails(client[r])
          /\ Escapes(r)
          /\ Logged(r, <<E("ROLLBACK", 0), E("error", 0), E("release", 0)>>)
    /\ Release(r)
    /\ Goto(r, "done")
    /\ UNCHANGED <<queue, pictures, op, arg, upd, pubs, idx, cmt, built, err>>

----------------------------------------------------------------------------
(* The create handlers, two requests at a time *)

NextCreate ==
    \/ \E r \in Req : createPlatform(r)
    \/ \E r \in Req : createPlatformWithNewVideoGames(r)
    \/ \E r \in Req : Connect(r)
    \/ \E r \in Req : cp_begin(r)
    \/ \E r \in Req : cp_createPlatform(r)
    \/ \E r \in Req : cp_saveImage(r)
    \/ \E r \in Req : cp_commit(r)
    \/ \E r \in Req : cp_catch(r)
    \/ \E r \in Req : cpv_begin(r)
    \/ \E r \in Req : cpv_createPlatform(r)
    \/ \E r \in Req : cpv_catch(r)

SpecCreate == InitUpdate /\ [][NextCreate]_vars

----------------------------------------------------------------------------
(* Platforms created, updated and deleted, two requests at a time *)

NextPlatform ==
    \/ \E r \in Req : createPlatform(r)
    \/ \E r \in Req : updatePlatform(r)
    \/ \E r \in Req : deletePlatform(r)
    \/ \E r \in Req : Connect(r)
    \/ \E r \in Req : cp_begin(r)
    \/ \E r \in Req : cp_createPlatform(r)
    \/ \E r \in Req : cp_saveImage(r)
    \/ \E r \in Req : cp_commit(r)
    \/ \E r \in Req : cp_catch(r)
    \/ \E r \in Req : up_begin(r)
    \/ \E r \in Req : up_update(r)
    \/ \E r \in Req : up_saveImage(r)
    \/ \E r \in Req : up_rollback(r)
    \/ \E r \in Req : up_commit(r)
    \/ \E r \in Req : up_catch(r)
    \/ \E r \in Req : dp_begin(r)
    \/ \E r \in Req : dp_getPublication(r)
    \/ \E r \in Req : dp_deleteGames(r)
    \/ \E r \in Req : dp_deletePublication(r)
    \/ \E r \in Req : dp_deletePlatform(r)
    \/ \E r \in Req : dp_rollback(r)
    \/ \E r \in Req : dp_commit(r)
    \/ \E r \in Req : dp_catch(r)

SpecPlatform == InitUpdate /\ [][NextPlatform]_vars

----------------------------------------------------------------------------
(* deleteUser against updateUser, two requests at a time *)

\* one publication, and zero to two games on it: the first of user 2
InitUser ==
    /\ \E g \in 0..Min(MaxGame, 2) : db = InitialStore(1, g)
    /\ InitRequests

NextUser ==
    \/ \E r \in Req : deleteUser(r)
    \/ \E r \in Req : updateUser(r)
    \/ \E r \in Req : Connect(r)
    \/ \E r \in Req : du_isAdmin(r)
    \/ \E r \in Req : du_begin(r)
    \/ \E r \in Req : du_deleteGamesFromUser(r)
    \/ \E r \in Req : du_deleteUser(r)
    \/ \E r \in Req : du_rollback(r)
    \/ \E r \in Req : du_commit(r)
    \/ \E r \in Req : du_catch(r)
    \/ \E r \in Req : uu_update(r)

SpecUser == InitUser /\ [][NextUser]_vars

----------------------------------------------------------------------------
(* The builders alone, over every combination of field values *)

InitBuild ==
    /\ db = InitialStore(0, 0)
    /\ InitRequests

BuildVideoGame ==
    \E id \in {1, 2}, name \in FieldVals, description \in FieldVals :
        LET vals == Body([name |-> name, description |-> description])
        IN  built' = [fn |-> "updateVideoGame", id |-> id, vals |-> vals,
                      stmt |-> VideoGameModel_updateVideoGame(id, vals)]

BuildGenre ==
    \E id \in {1, 2}, name \in FieldVals, description \in FieldVals :
        LET vals == Body([name |-> name, description |-> description])
        IN  built' = [fn |-> "updateGenre", id |-> id, vals |-> vals,
                      stmt |-> GenreModel_updateGenre(id, vals)]

BuildUser ==
    \E id \in {1, 2}, username \in FieldVals, email \in {Undefined, "a"},
       firstname \in FieldVals, lastname \in FieldVals, password \in FieldVals :
        LET vals == Body([username |-> username, email |-> email,
                          firstname |-> firstname, lastname |-> lastname,
                          password |-> password])
        IN  built' = [fn |-> "updateUser", id |-> id, vals |-> vals,
                      stmt |-> UserDB_updateUser(id, vals)]

NextBuild ==
    /\ \/ BuildVideoGame
       \/ BuildGenre
       \/ BuildUser
    /\ UNCHANGED <<db, pend, ins, tx, queue, idle, nfail, effect, pictures,
                   pc, op, arg, upd, client, pubs, idx, resp, log, cmt, err>>

SpecBuild == InitBuild /\ [][NextBuild]_vars

----------------------------------------------------------------------------
(* createUserWithGames (controller) *)

MaxIds == 2        \* publication ids sent along with the new user

\* publications_ids of the body: up to MaxIds different ids
PublicationIds ==
    {q \in UNION {[1..n -> 1..MaxIds] : n \in 0..MaxIds} :
        \A i, j \in 1..Len(q) : i # j => q[i] # q[j]}

\* pubs keeps publications_ids, arg the id the new user row gets
createUserWithGames(r) ==
    /\ pc[r] = "idle"
    /\ \E username \in {"neo", "bob", Undefined}, publicationsIds \in PublicationIds :
        /\ op' = [op EXCEPT ![r] = "createUserWithGames"]
        /\ arg' = [arg EXCEPT ![r] = 2 + r]
        /\ upd' = [upd EXCEPT ![r] = Body([username |-> username])]
        /\ pubs' = [pubs EXCEPT ![r] = publicationsIds]
        /\ IF username = Undefined
           THEN Goto(r, "done") /\ Send(r, "BadRequest")
           ELSE Goto(r, "connect") /\ UNCHANGED resp
    /\ UNCHANGED <<db, pend, ins, tx, queue, idle, nfail, effect, pictures,
                   client, idx, log, cmt, built, err>>

cug_throw(r, stmt, kind) ==
    /\ Goto(r, "cug_catch")
    /\ err' = [err EXCEPT ![r] = kind]
    /\ Logged(r, <<E(stmt, 0), E("error", 0)>>)
    /\ UNCHANGED <<queue, idle, client, pubs, resp>>

cug_begin(r) ==
    /\ pc[r] = "cug_begin"
    /\ Ready(client[r])
    /\ Begin(client[r])
    /\ Goto(r, "cug_createUser")
    /\ Logged(r, <<E("BEGIN", 0)>>)
    /\ UNCHANGED <<queue, idle, pictures, op, arg, upd, client, pubs, idx,
                   resp, cmt, built, err>>

NewUser(r) == [id |-> arg[r], username |-> upd[r].username, is_admin |-> FALSE]

\* the await that follows position i - 1 of the for..of loop
LoopAt(r, i) == IF i > Len(pubs[r]) THEN "cug_commit" ELSE "cug_getPublication"

\* const userId = (await UserDB.createUser(..)).rows[0].id; username is unique
cug_createUser(r) ==
    /\ pc[r] = "cug_createUser"
    /\ LET c == client[r]
           unique == \E u \in Visible(c, "user") : u.username = upd[r].username
       IN  /\ Ready(c)
           /\ \A d \in Conns \ {c} : \A u \in ins[d]["user"] :
                  u.username # upd[r].username
           /\ \/ /\ ~unique
                 /\ InsertOk(r, c, "user", {NewUser(r)})
                 /\ Goto(r, LoopAt(r, 1))
                 /\ idx' = [idx EXCEPT ![r] = 1]
                 /\ Logged(r, <<E("createUser", 1)>>)
                 /\ UNCHANGED <<queue, idle, client, pubs, resp, err>>
              \/ /\ StmtFails(c, unique)
                 /\ cug_throw(r, "createUser", IF unique THEN "unique" ELSE "other")
                 /\ UNCHANGED idx
    /\ UNCHANGED <<pictures, op, arg, upd, cmt, built>>

\* for (const id of publicationsIds) { await PublicationDB.getPublication(..)
cug_getPublication(r) ==
    /\ pc[r] = "cug_getPublication"
    /\ LET c == client[r]
       IN  /\ Ready(c)
           /\ \/ /\ SelectOk(c)
                 /\ Goto(r, IF \E p \in Visible(c, "publication") :
                                  p.id = pubs[r][idx[r]]
                            THEN "cug_createGame"
                            ELSE "cug_rollback")
                 /\ Logged(r, <<E("getPublication", pubs[r][idx[r]])>>)
                 /\ UNCHANGED <<queue, idle, client, pubs, resp, err>>
              \/ /\ StmtFails(c, FALSE)
                 /\ cug_throw(r, "getPublication", "other")
    /\ UNCHANGED <<pictures, op, arg, upd, idx, cmt, built>>

\* await GamesDB.createGame(client, userId, publications[0].id): the row
\* references the publication, which another transaction may have deleted
cug_createGame(r) ==
    /\ pc[r] = "cug_createGame"
    /\ LET c == client[r]
           id == pubs[r][idx[r]]
           publication == {p \in db["publication"] \cup ins[c]["publication"] :
                              p.id = id}
           gone == publication \cap Visible(c, "publication") = {}
       IN  /\ Ready(c)
           /\ ~Waits(c, "publication", publication)
           /\ \/ /\ ~gone
                 /\ InsertOk(r, c, "game", {[user_id |-> arg[r], publication_id |-> id]})
                 /\ Goto(r, LoopAt(r, idx[r] + 1))
                 /\ idx' = [idx EXCEPT ![r] = @ + 1]
                 /\ Logged(r, <<E("createGame", id)>>)
                 /\ UNCHANGED <<queue, idle, client, pubs, resp, err>>
              \/ /\ StmtFails(c, gone)
                 /\ cug_throw(r, "createGame", IF gone THEN "fk" ELSE "other")
                 /\ UNCHANGED idx
    /\ UNCHANGED <<pictures, op, arg, upd, cmt, built>>

\* await client.query("ROLLBACK"); res.status(404).json(..); return
cug_rollback(r) ==
    /\ pc[r] = "cug_rollback"
    /\ Ready(client[r])
    /\ \/ /\ RollbackOk(client[r])
          /\ Send(r, "NotFound")
          /\ Release(r)
          /\ Goto(r, "done")
          /\ Logged(r, <<E("ROLLBACK", 0), E("release", 0)>>)
          /\ UNCHANGED <<queue, pubs, err>>
       \/ /\ EndFails(client[r])
          /\ cug_throw(r, "ROLLBACK", "other")
    /\ UNCHANGED <<pictures, op, arg, upd, idx, cmt, built>>

\* await client.query("COMMIT"); res.sendStatus(201)
cug_commit(r) ==
    /\ pc[r] = "cug_commit"
    /\ Ready(client[r])
    /\ \/ /\ CommitOk(r, client[r])
          /\ cmt' = [cmt EXCEPT ![r] = "ok"]
          /\ Send(r, "Success")
          /\ Release(r)
          /\ Goto(r, "done")
          /\ Logged(r, <<E("COMMIT", 0), E("release", 0)>>)
          /\ UNCHANGED <<queue, pubs, err>>
       \/ /\ EndFails(client[r])
          /\ cmt' = [cmt EXCEPT ![r] = "failed"]
          /\ cug_throw(r, "COMMIT", "other")
    /\ UNCHANGED <<pictures, op, arg, upd, idx, built>>

\* switch (error.code) { case UNIQUE_VIOLATION: 409; default: 500 }
ClassifyUser(kind) == IF kind = "unique" THEN "DuplicateEntry" ELSE "InternalFailure"

\* a catch block that answers without ROLLBACK
cug_catch_noRollback(r) ==
    /\ pc[r] = "cug_catch"
    /\ Ready(client[r])
    /\ SendOrThrow(r, ClassifyUser(err[r]))
    /\ Logged(r, <<E("release", 0)>>)
    /\ Release(r)
    /\ Goto(r, "done")
    /\ UNCHANGED <<db, pend, ins, tx, nfail, effect>>
    /\ UNCHANGED <<queue, pictures, op, arg, upd, pubs, idx, cmt, built, err>>

\* catch (error) { await client.query("ROLLBACK"); <classify> } finally
cug_catch(r) ==
    /\ pc[r] = "cug_catch"
    /\ Ready(client[r])
    /\ \/ /\ RollbackOk(client[r])
          /\ SendOrThrow(r, ClassifyUser(err[r]))
          /\ Logged(r, <<E("ROLLBACK", 0), E("release", 0)>>)
       \/ /\ EndFails(client[r])
          /\ Escapes(r)
          /\ Logged(r, <<E("ROLLBACK", 0), E("error", 0), E("release", 0)>>)
    /\ Release(r)
    /\ Goto(r, "done")
    /\ UNCHANGED <<queue, pictures, op, arg, upd, pubs, idx, cmt, built, err>>

----------------------------------------------------------------------------
(* createUserWithGames against the platform cascade, two requests at a time *)

InitGames ==
    /\ \E n \in 0..Min(MaxPub, 2) : db = InitialStore(n, Min(n, 1))
    /\ InitRequests

NextGames ==
    \/ \E r \in Req : createUserWithGames(r)
    \/ \E r \in Req : deletePlatform(r)
    \/ \E r \in Req : Connect(r)
    \/ \E r \in Req : cug_begin(r)
    \/ \E r \in Req : cug_createUser(r)
    \/ \E r \in Req : cug_getPublication(r)
    \/ \E r \in Req : cug_createGame(r)
    \/ \E r \in Req : cug_rollback(r)
    \/ \E r \in Req : cug_commit(r)
    \/ \E r \in Req : cug_catch(r)
    \/ \E r \in Req : dp_begin(r)
    \/ \E r \in Req : dp_getPublication(r)
    \/ \E r \in Req : dp_deleteGames(r)
    \/ \E r \in Req : dp_deletePublication(r)
    \/ \E r \in Req : dp_deletePlatform(r)
    \/ \E r \in Req : dp_rollback(r)
    \/ \E r \in Req : dp_commit(r)
    \/ \E r \in Req : dp_catch(r)

SpecGames == InitGames /\ [][NextGames]_vars

----------------------------------------------------------------------------
(* The lookups: the statement each one builds and the rows the store        *)
(* answers.  A SELECT without ORDER BY answers its rows in the order the    *)
(* scan meets them, which is not the same for every statement.             *)

MaxRows == 3       \* rows of the table a lookup reads

NoValue == -2      \* undefined, where the value is a number when it is given

Pages == 1..MaxRows
Limits == {1, 2}

\* name column of the rows: video games 1, 3, .. hold an "a"; the genres sort
\* by name in the reverse of their ids
VideoGameName(id) == IF id % 2 = 1 THEN "a" ELSE "b"
GenreNameKey(id) == 0 - id

\* a statement parameter: a number or a text
Num(n) == [n |-> n, s |-> ""]
Str(s) == [n |-> 0, s |-> s]

Select(table) ==
    [from |-> table, where |-> <<>>, order |-> "none", limit |-> 0, offset |-> 0,
     glued |-> FALSE]

\* queryConditions.push(`col = $${queryValues.length + 1}`); queryValues.push(v)
PushCondition(q, col, value, given) ==
    IF ~given THEN q
    ELSE [stmt |-> [q.stmt EXCEPT !.where = Append(@, [col |-> col,
                                                      index |-> Len(q.values) + 1])],
          values |-> Append(q.values, value)]

\* the same clause with pages counted from 0
PushPagination_zeroBased(q, page, limit) ==
    [stmt |-> [q.stmt EXCEPT !.limit = Len(q.values) + 1,
                             !.offset = Len(q.values) + 2],
     values |-> q.values \o <<Num(limit), Num(page * limit)>>]

\* query += ` LIMIT $n`; push(limit); query += ` OFFSET $n+1`; push((page - 1) * limit)
PushPagination(q, page, limit) ==
    [stmt |-> [q.stmt EXCEPT !.limit = Len(q.values) + 1,
                             !.offset = Len(q.values) + 2],
     values |-> q.values \o <<Num(limit), Num((page - 1) * limit)>>]

\* part_003: pagination only when both page and limit are given, no ORDER BY
VideoGameModel_getVideoGames(id, name, page, limit) ==
    LET c == PushCondition(PushCondition([stmt |-> Select("video_game"), values |-> <<>>],
                                         "id", Num(id), id # NoValue),
                           "name", Str(name), name # Undefined)
    IN  IF page # NoValue /\ limit # NoValue THEN PushPagination(c, page, limit)
        ELSE c

\* tools/constant: the defaults of the later version
DEFAULT_PAGE == 1
DEFAULT_LIMIT == 2

\* the later version: page and limit default, ORDER BY id ASC, always paginated
getVideoGames_v2(id, name, page, limit) ==
    LET c == PushCondition(PushCondition([stmt |-> Select("video_game"), values |-> <<>>],
                                         "id", Num(id), id # NoValue),
                           "name", Str(name), name # Undefined)
        o == [c EXCEPT !.stmt.order = "id"]
    IN  PushPagination(o, IF page = NoValue THEN DEFAULT_PAGE ELSE page,
                          IF limit = NoValue THEN DEFAULT_LIMIT ELSE limit)

\* genre.js: `ORDER BY name ASC` is appended without a leading blank, so after
\* a WHERE it is glued to the parameter ($1ORDER)
GenreModel_getGenres(id, alphabetical, page, limit) ==
    LET c == PushCondition([stmt |-> Select("genre"), values |-> <<>>], "id", Num(id),
                           id # NoValue)
        o == IF alphabetical
             THEN [c EXCEPT !.stmt.order = "name", !.stmt.glued = (c.stmt.where # <<>>)]
             ELSE c
    IN  IF page # NoValue /\ limit # NoValue THEN PushPagination(o, page, limit)
        ELSE o

\* the orders a sequential scan can meet the rows in: the order they were
\* inserted in, or that order with one row moved to the end (an UPDATE writes
\* the new version of the row behind the others)
HeapOrders(S) ==
    {Ascending(S)} \cup {Ascending(S \ {x}) \o <<x>> : x \in S}

Matches(table, row, cond, value) ==
    IF cond.col = "id" THEN row = value.n
    ELSE (IF table = "video_game" THEN VideoGameName(row) ELSE "b") = value.s

RECURSIVE SortBy(_, _)
SortBy(S, key) ==
    IF S = {} THEN <<>>
    ELSE LET m == CHOOSE x \in S : \A y \in S : key[x] <= key[y]
         IN  <<m>> \o SortBy(S \ {m}, key)

\* the rows the store answers to a statement when it scans in the order heap
Execute(q, rows, heap) ==
    LET keep == {x \in rows : \A i \in 1..Len(q.stmt.where) :
                    Matches(q.stmt.from, x, q.stmt.where[i],
                            q.values[q.stmt.where[i].index])}
        scan == SelectSeq(heap, LAMBDA x : x \in keep)
        sorted == CASE q.stmt.order = "id" -> SortBy(keep, [x \in keep |-> x])
                    [] q.stmt.order = "name" -> SortBy(keep, [x \in keep |-> GenreNameKey(x)])
                    [] OTHER -> scan
        first == IF q.stmt.offset = 0 THEN 1 ELSE q.values[q.stmt.offset].n + 1
        last == IF q.stmt.limit = 0 THEN Len(sorted)
                ELSE Min(Len(sorted), first - 1 + q.values[q.stmt.limit].n)
    IN  SubSeq(sorted, first, last)

\* every answer the store can give to a statement
Answers(q, rows) ==
    IF q.stmt.order # "none" THEN {Execute(q, rows, <<>>)}
    ELSE {Execute(q, rows, heap) : heap \in HeapOrders(rows)}

\* UserDB.getUser(client, id, username, page, limit)
UserDB_getUser(id, username, page, limit) ==
    LET c == PushCondition(PushCondition([stmt |-> Select("user"), values |-> <<>>],
                                         "id", Num(id), id # NoValue),
                           "username", Str(username), username # Undefined)
        o == [c EXCEPT !.stmt.order = "id"]
    IN  IF page # NoValue /\ limit # NoValue THEN PushPagination(o, page, limit)
        ELSE o

NoLookup ==
    [fn |-> "none", id |-> NoValue, name |-> Undefined, alphabetical |-> FALSE,
     page |-> NoValue,
     limit |-> NoValue, q |-> [stmt |-> Select("none"), values |-> <<>>],
     all |-> {}, rows |-> <<>>, outcome |-> "none", walk |-> <<>>]

\* the page just read, after the page before it when the caller read that one
\* with the same lookup, filters and limit in the request before
Walk(fn, id, name, alphabetical, page, limit, rows) ==
    IF /\ built.fn = fn
       /\ built.id = id /\ built.name = name /\ built.alphabetical = alphabetical
       /\ built.limit = limit
       /\ built.outcome \in {"Success", "NotFound"}
       /\ page # NoValue /\ built.page = page - 1
    THEN <<built.rows, rows>>
    ELSE <<rows>>

Looked(fn, id, name, alphabetical, page, limit, q, all, rows, outcome) ==
    built' = [fn |-> fn, id |-> id, name |-> name, alphabetical |-> alphabetical,
              page |-> page, limit |-> limit,
              q |-> q, all |-> all, rows |-> rows, outcome |-> outcome,
              walk |-> IF outcome \in {"Success", "NotFound"}
                       THEN Walk(fn, id, name, alphabetical, page, limit, rows)
                       ELSE <<>>]

PageArgs == {NoValue} \cup Pages
LimitArgs == {NoValue} \cup Limits

\* a model function: the statement it builds, run against the table
getVideoGames ==
    \E id \in {NoValue, 1}, name \in {Undefined, "a"}, page \in PageArgs,
       limit \in LimitArgs :
        LET q == VideoGameModel_getVideoGames(id, name, page, limit)
        IN  \E rows \in Answers(q, db["video_game"]) :
                Looked("getVideoGames", id, name, FALSE, page, limit, q, db["video_game"],
                       rows, "Success")

getVideoGamesDefaults ==
    \E id \in {NoValue, 1}, name \in {Undefined, "a"}, page \in PageArgs,
       limit \in LimitArgs :
        LET q == getVideoGames_v2(id, name, page, limit)
        IN  \E rows \in Answers(q, db["video_game"]) :
                Looked("getVideoGames_v2", id, name, FALSE, page, limit, q, db["video_game"],
                       rows, "Success")

\* a statement with $1ORDER is a syntax error for the servers that reject
\* trailing junk after a parameter, and is accepted by the older ones
getGenres ==
    \E id \in {NoValue, 1}, alphabetical \in BOOLEAN, page \in PageArgs,
       limit \in LimitArgs :
        LET q == GenreModel_getGenres(id, alphabetical, page, limit)
            rejected == IF q.stmt.glued
                        THEN {[rows |-> <<>>, outcome |-> "InternalFailure"]}
                        ELSE {}
        IN  \E out \in rejected \cup {[rows |-> rows, outcome |-> "Success"] :
                                          rows \in Answers(q, db["genre"])} :
                Looked("getGenres", id, Undefined, alphabetical, page, limit, q, db["genre"],
                       out.rows, out.outcome)

\* res.json(rows), or 404 when the statement answered no row
Answer(rows) == IF Len(rows) = 0 THEN "NotFound" ELSE "Success"

\* what a controller answers: 500 when the statement fails, else the rows
Answered(q, rows) ==
    {[rows |-> <<>>, outcome |-> "InternalFailure"]}
        \cup {[rows |-> a, outcome |-> Answer(a)] : a \in Answers(q, rows)}

\* the controller reads id and name of the query string and nothing else
getVideoGame ==
    \E id \in {NoValue, 1, NaN}, name \in {Undefined, "a"}, page \in PageArgs,
       limit \in LimitArgs :
        LET q == VideoGameModel_getVideoGames(id, name, NoValue, NoValue)
        IN  \E out \in IF id = NaN THEN {[rows |-> <<>>, outcome |-> "BadRequest"]}
                        ELSE Answered(q, db["video_game"]) :
                Looked("getVideoGame", id, name, FALSE, page, limit,
                       IF id = NaN THEN NoLookup.q ELSE q, db["video_game"],
                       out.rows, out.outcome)

UserIds == {u.id : u \in db["user"]}

getUser ==
    \E id \in {NoValue, 1, NaN}, page \in PageArgs, limit \in LimitArgs :
        LET q == UserDB_getUser(id, Undefined, page, limit)
        IN  \E out \in IF id = NaN THEN {[rows |-> <<>>, outcome |-> "BadRequest"]}
                        ELSE Answered(q, UserIds) :
                Looked("getUser", id, Undefined, FALSE, page, limit,
                       IF id = NaN THEN NoLookup.q ELSE q, UserIds,
                       out.rows, out.outcome)

InitLookup ==
    /\ \E n \in 0..MaxRows :
        db = [t \in Tables \cup {"genre"} |->
                CASE t = "video_game" -> 1..n
                  [] t = "genre" -> 1..n
                  [] t = "user" -> {[id |-> i, username |-> "bob", is_admin |-> FALSE] :
                                        i \in 1..n}
                  [] OTHER -> {}]
    /\ InitRequests

NextLookup ==
    /\ \/ getVideoGames
       \/ getVideoGamesDefaults
       \/ getGenres
       \/ getVideoGame
       \/ getUser
    /\ UNCHANGED <<db, pend, ins, tx, queue, idle, nfail, effect, pictures,
                   pc, op, arg, upd, client, pubs, idx, resp, log, cmt, err>>

SpecLookup == InitLookup /\ [][NextLookup]_vars

----------------------------------------------------------------------------
(* Reading the record of a request *)

DeleteOps == {"deleteVideoGame", "deletePlatform", "deleteUser"}
UpdateOps == {"updateVideoGame", "updateUser", "updatePlatform"}

Range(f) == {f[i] : i \in DOMAIN f}
At(r, e) == {i \in DOMAIN log[r] : log[r][i].e = e}
Has(r, e) == At(r, e) # {}
Sent(r, outcome) == outcome \in Range(resp[r])

\* nothing the request issued without await is still waiting for the backend
Drained(r) == \A c \in Conns : \A i \in DOMAIN queue[c] : queue[c][i].r # r
Over(r) == pc[r] = "done" /\ Drained(r)

\* the field set of an update request is empty
ProvidedKeys(r) ==
    CASE op[r] = "updateVideoGame" -> Keys(upd[r], {"name", "description"})
      [] op[r] = "updateUser" -> Keys(upd[r], UserKeys)
      [] OTHER -> Keys(upd[r], PlatformKeys)

----------------------------------------------------------------------------
(* C1: an update with an empty field set fails with NoFieldsToUpdate and    *)
(* performs no I/O: no connection is acquired and no statement is issued    *)
(* before the failure is reported (updateVideoGame, updateUser,             *)
(* updatePlatform).                                                          *)
C1_EmptyUpdateNoIO ==
    \A r \in Req :
        (op[r] \in UpdateOps /\ ~Sent(r, "BadRequest") /\ ProvidedKeys(r) = {}
            /\ pc[r] = "done")
            => (resp[r] = <<"NoFieldsToUpdate">> /\ log[r] = <<>>)

----------------------------------------------------------------------------
(* C2 *)

FieldOf(col) == IF col = "hashed_password" THEN "password" ELSE col
Assignments(q) == SelectSeq(q, LAMBDA t : t.k = "assign")
WellFormed(q) ==
    /\ Len(q) >= 3
    /\ q[1].k = "head"
    /\ q[Len(q)].k = "where"
    /\ \A i \in 2..(Len(q) - 1) : q[i].k = (IF i % 2 = 0 THEN "assign" ELSE "sep")

\* placeholders 1..k+1 in lock-step with the parameters, the id last
LockStep(b) ==
    LET q == b.stmt.query
        a == Assignments(q)
        k == Len(a)
    IN  /\ WellFormed(q)
        /\ Len(b.stmt.params) = k + 1
        /\ \A i \in 1..k : a[i].ph = i /\ b.stmt.params[i] = b.vals[FieldOf(a[i].col)]
        /\ q[Len(q)].ph = k + 1
        /\ b.stmt.params[k + 1] = b.id

Assigned(b) == {FieldOf(t.col) : t \in Range(Assignments(b.stmt.query))}

(* C2 (as stated): for every subset of provided fields the builders         *)
(* updateVideoGame, updateGenre and updateUser number the placeholders      *)
(* 1..k+1 in lock-step with the parameters, the id last, and a field that   *)
(* is not provided appears in neither the statement nor the parameters.     *)
C2_LockStepAllBuilders ==
    (built.fn # "none" /\ ~built.stmt.threw)
        => /\ LockStep(built)
           /\ Assigned(built) = {f \in DOMAIN NoBody \ {"picture"} : built.vals[f] # Undefined}

(* C2 (amended): updateVideoGame and updateGenre are as stated; updateUser  *)
(* always assigns username to $1 and email to $2, whatever was passed, and  *)
(* gives the next placeholders to those of firstname, lastname, password    *)
(* that are neither undefined nor null; the id is always the last one.      *)
C2_LockStepAmended ==
    (built.fn # "none" /\ ~built.stmt.threw)
        => /\ LockStep(built)
           /\ Assigned(built) =
                IF built.fn = "updateUser"
                THEN {"username", "email"} \cup
                     {f \in {"firstname", "lastname", "password"} :
                          built.vals[f] \notin {Undefined, Null}}
                ELSE {f \in {"name", "description"} : built.vals[f] # Undefined}

C2_Witness ==
    /\ built.fn = "updateVideoGame"
    /\ built.vals.name = Undefined
    /\ built.vals.description = "a"
    /\ built.stmt.params = <<"a", built.id>>

----------------------------------------------------------------------------
(* C3 *)

\* a statement of the request failed
Failed(r) == Has(r, "error") \/ cmt[r] = "failed"
FirstError(r) == CHOOSE i \in At(r, "error") : \A j \in At(r, "error") : i <= j
AllQuiet ==
    /\ \A q \in Req : pc[q] \in {"idle", "done"}
    /\ \A c \in Conns : queue[c] = <<>>

(* C3: in every delete cascade (deleteVideoGame, deletePlatform,            *)
(* deleteUser), once a statement has failed no further statement of the     *)
(* cascade is issued (only ROLLBACK and the release of the client follow),  *)
(* the transaction is rolled back, and the request has removed nothing from *)
(* the committed store nor any image artifact.                              *)
C3_FailureLeavesStoreUnchanged ==
    /\ \A r \in Req :
        (op[r] \in DeleteOps /\ Failed(r)) =>
            /\ effect[r] = NoRows
            /\ ~Has(r, "deleteImage")
            /\ Has(r, "error") =>
                /\ \A i \in DOMAIN log[r] :
                      i > FirstError(r) => log[r][i].e \in {"ROLLBACK", "error", "release"}
                /\ pc[r] = "done" => \E i \in At(r, "ROLLBACK") : i > FirstError(r)
    /\ AllQuiet => \A c \in Conns : tx[c] = "none" /\ pend[c] = NoRows /\ ins[c] = NoRows

\* a cascade that had deleted a publication inside its transaction, then failed
C3_Witness ==
    \E r \in Req :
        /\ op[r] \in {"deleteVideoGame", "deletePlatform"}
        /\ Over(r)
        /\ Has(r, "error")
        /\ E("deletePublication", 1) \in Range(log[r])
        /\ PublicationRow(1) \in db["publication"]
        /\ effect[r] = NoRows

----------------------------------------------------------------------------
(* C4: a deleteVideoGame(v) that reports success leaves no Game row, no     *)
(* Publication row and no Category link of v, and no VideoGame row v.       *)
RowsOf(v) ==
    LET ps == {p \in db["publication"] : p.video_game_id = v}
    IN  [video_game |-> db["video_game"] \cap {v},
         publication |-> ps,
         game |-> {g \in db["game"] : g.publication_id \in {p.id : p \in ps}},
         category |-> {l \in db["category"] : l.video_game_id = v}]

C4_SuccessLeavesNothing ==
    \A r \in Req :
        (op[r] = "deleteVideoGame" /\ Sent(r, "Success") /\ Over(r))
            => \A t \in DOMAIN RowsOf(arg[r]) : RowsOf(arg[r])[t] = {}

----------------------------------------------------------------------------
(* C5 *)

Cascade == {"deleteGamesFromPublication", "deletePublication",
            "deleteCategoriesFromVideoGame", "deleteVideoGame"}

(* C5 (as stated): deleteVideoGame first deletes every Game of every        *)
(* Publication of the video game, then every Publication, then the Category *)
(* links, then the VideoGame row.                                           *)
C5_AllGamesBeforeAnyPublication ==
    \A r \in Req : op[r] = "deleteVideoGame" =>
        \A i \in At(r, "deleteGamesFromPublication") :
            \A j \in At(r, "deletePublication") : i < j

(* C5 (amended): inside one transaction opened by a single BEGIN,           *)
(* deleteVideoGame takes the publications one by one and deletes the Games  *)
(* of a Publication immediately before that Publication; the Category links *)
(* are deleted after every Publication, and the VideoGame row last.         *)
C5_GamesBeforeTheirPublication ==
    \A r \in Req : op[r] = "deleteVideoGame" =>
        /\ Cardinality(At(r, "BEGIN")) <= 1
        /\ \A i \in DOMAIN log[r] :
            /\ log[r][i].e \in Cascade =>
                /\ \E j \in At(r, "BEGIN") : j < i
                /\ \A j \in At(r, "COMMIT") \cup At(r, "ROLLBACK") : i < j
            /\ log[r][i].e = "deletePublication" =>
                /\ i > 1
                /\ log[r][i - 1].e = "deleteGamesFromPublication"
                /\ log[r][i].k # 0 => log[r][i - 1].k = log[r][i].k
            /\ log[r][i].e = "deleteCategoriesFromVideoGame" =>
                \A n \in DOMAIN pubs[r] :
                    \E j \in 1..(i - 1) : log[r][j] = E("deletePublication", pubs[r][n])
            /\ log[r][i].e = "deleteVideoGame" =>
                /\ i > 1
                /\ log[r][i - 1].e = "deleteCategoriesFromVideoGame"

C5_Witness ==
    \E r \in Req :
        /\ op[r] = "deleteVideoGame"
        /\ Len(pubs[r]) = 2
        /\ Sent(r, "Success")
        /\ E("deleteVideoGame", 1) \in Range(log[r])

----------------------------------------------------------------------------
(* C6: deleteVideoGame(id) reports NotFound if and only if no VideoGame row *)
(* with that id exists, whatever the number of its publications.  Checked   *)
(* on a request that ran alone and met no backend failure: the initial      *)
(* store holds the video games 1 and 2.                                     *)
C6_NotFoundIffNoVideoGame ==
    \A r \in Req :
        (/\ op[r] = "deleteVideoGame"
         /\ Over(r)
         /\ arg[r] # NaN
         /\ nfail = 0
         /\ \A q \in Req \ {r} : pc[q] = "idle")
            => (Sent(r, "NotFound") <=> arg[r] \notin {1, 2})

----------------------------------------------------------------------------
(* C7: two concurrent deleteVideoGame of the same existing video game, with *)
(* no backend failure: exactly one reports success and the other NotFound.  *)
C7_OneSuccessOneNotFound ==
    (/\ \A r \in Req : op[r] = "deleteVideoGame" /\ arg[r] = 1 /\ Over(r)
     /\ nfail = 0
     /\ \E r \in Req : PublicationRow(1) \in effect[r]["publication"])
        => \E r \in Req : \E q \in Req \ {r} :
              resp[r] = <<"Success">> /\ resp[q] = <<"NotFound">>

----------------------------------------------------------------------------
(* C8: in every delete cascade, a delete statement on the root row that     *)
(* affects zero rows is never followed by a success response.               *)
RootDelete(o) ==
    CASE o = "deleteVideoGame" -> "deleteVideoGame"
      [] o = "deletePlatform" -> "deletePlatform"
      [] OTHER -> "deleteUser"

\* the root delete ran, did not fail, and reported rowCount = 0
ZeroRows(r) ==
    \E i \in DOMAIN log[r] :
        /\ log[r][i] = E(RootDelete(op[r]), 0)
        /\ i < Len(log[r])
        /\ log[r][i + 1].e # "error"

C8_ZeroRowsNeverSuccess ==
    \A r \in Req :
        (op[r] \in DeleteOps /\ pc[r] = "done" /\ ZeroRows(r)) => ~Sent(r, "Success")

----------------------------------------------------------------------------
(* C9: a delete cascade sends its success response only once its COMMIT has *)
(* been acknowledged by the backend.                                        *)
C9_SuccessAfterCommitAck ==
    \A r \in Req : (op[r] \in DeleteOps /\ Sent(r, "Success")) => cmt[r] = "ok"

----------------------------------------------------------------------------
(* C10 (as stated): a delete request that reports NotFound has issued no    *)
(* BEGIN.                                                                   *)
C10_NotFoundWithoutBegin ==
    \A r \in Req : (op[r] \in DeleteOps /\ Sent(r, "NotFound")) => ~Has(r, "BEGIN")

(* C10 (amended): a delete request that reports NotFound commits nothing.   *)
(* deleteVideoGame reports it before any BEGIN; deletePlatform and          *)
(* deleteUser have issued BEGIN, find zero rows on the root delete, and end *)
(* the transaction with ROLLBACK, never with COMMIT.                        *)
C10_NotFoundCommitsNothing ==
    \A r \in Req : (op[r] \in DeleteOps /\ Sent(r, "NotFound")) =>
        /\ ~Has(r, "COMMIT")
        /\ cmt[r] = "none"
        /\ effect[r] = NoRows
        /\ op[r] = "deleteVideoGame" => ~Has(r, "BEGIN")
        /\ op[r] # "deleteVideoGame" =>
            /\ Has(r, "BEGIN")
            /\ E(RootDelete(op[r]), 0) \in Range(log[r])
            /\ pc[r] = "done" => Has(r, "ROLLBACK")

C10_Witness ==
    \E r \in Req : \E q \in Req \ {r} :
        /\ op[r] = "deleteUser" /\ resp[r] = <<"NotFound">> /\ pc[r] = "done"
        /\ op[q] = "deletePlatform" /\ resp[q] = <<"NotFound">> /\ pc[q] = "done"
        /\ Has(r, "BEGIN") /\ Has(q, "BEGIN")

----------------------------------------------------------------------------
(* C11 (as stated): deleteUser on an admin always fails with                *)
(* DeleteForbidden and performs no I/O.                                     *)
C11_AdminDeleteNoIO ==
    \A r \in Req :
        (op[r] = "deleteUser" /\ arg[r] = 1 /\ pc[r] = "done")
            => (resp[r] = <<"DeleteForbidden">> /\ log[r] = <<>>)

(* C11 (amended): deleteUser on an admin borrows a connection and reads     *)
(* is_admin with one SELECT, and nothing else: no BEGIN and no DELETE is    *)
(* issued and no row is changed, whether or not the admin owns Game rows.   *)
(* It answers DeleteForbidden, or InternalFailure when that SELECT fails.   *)
C11_AdminDeleteChangesNothing ==
    \A r \in Req :
        (op[r] = "deleteUser" /\ arg[r] = 1 /\ pc[r] = "done") =>
            /\ effect[r] = NoRows
            /\ \A i \in DOMAIN log[r] :
                  log[r][i].e \in {"connect", "isAdmin", "error", "ROLLBACK", "release"}
            /\ resp[r] = IF Has(r, "error") THEN <<"InternalFailure">>
                         ELSE <<"DeleteForbidden">>

\* an admin that owns a game was refused, and the game is still there
C11_Witness ==
    \E r \in Req :
        /\ op[r] = "deleteUser" /\ arg[r] = 1 /\ pc[r] = "done"
        /\ resp[r] = <<"DeleteForbidden">>
        /\ \E g \in db["game"] : g.user_id = 1

----------------------------------------------------------------------------
(* C12: under every interleaving of deleteUser with updates of the same     *)
(* user, no user row whose is_admin is true when its DELETE runs is ever    *)
(* deleted.                                                                 *)
C12_NoAdminRowDeleted ==
    \A r \in Req : op[r] = "deleteUser" =>
        \A u \in effect[r]["user"] : ~u.is_admin

----------------------------------------------------------------------------
(* C13: a successful deleteUser(u) removes exactly the user row u and the   *)
(* Game rows owned by u: afterwards neither exists, and the request removed *)
(* no other user, no Game of another user, and no Publication, VideoGame,   *)
(* Category or Platform row.                                                *)
C13_DeleteUserFrame ==
    \A r \in Req : (op[r] = "deleteUser" /\ Sent(r, "Success")) =>
        /\ cmt[r] = "ok"
        /\ Cardinality(effect[r]["user"]) = 1
        /\ \A u \in effect[r]["user"] : u.id = arg[r]
        /\ \A g \in effect[r]["game"] : g.user_id = arg[r]
        /\ \A t \in Tables \ {"user", "game"} : effect[r][t] = {}
        /\ \A u \in db["user"] : u.id # arg[r]
        /\ \A g \in db["game"] : g.user_id # arg[r]

\* user 2 and its game are gone, a game of user 1 is still there
C13_Witness ==
    \E r \in Req :
        /\ op[r] = "deleteUser" /\ arg[r] = 2 /\ resp[r] = <<"Success">>
        /\ effect[r]["game"] # {}
        /\ \E g \in db["game"] : g.user_id = 1

----------------------------------------------------------------------------
----------------------------------------------------------------------------
(* C15: a deletePlatform(code) that reports success leaves no Publication   *)
(* of that platform, no Game on such a publication and no Platform row with *)
(* that code; the Games of a publication are deleted right before that      *)
(* publication, and every publication before the platform row.              *)
C15_PlatformCascade ==
    \A r \in Req : op[r] = "deletePlatform" =>
        /\ \A i \in At(r, "deletePublication") :
              /\ i > 1
              /\ log[r][i - 1].e = "deleteGamesFromPublication"
              /\ log[r][i].k # 0 => log[r][i - 1].k = log[r][i].k
        /\ \A i \in At(r, "deletePlatform") :
              \A n \in DOMAIN pubs[r] :
                  \E j \in 1..(i - 1) : log[r][j] = E("deletePublication", pubs[r][n])
        /\ Sent(r, "Success") =>
              /\ cmt[r] = "ok"
              /\ arg[r] \notin db["platform"]
              /\ \A p \in db["publication"] : p.platform_code # arg[r]
              /\ \A g \in db["game"] : \A n \in DOMAIN pubs[r] :
                    g.publication_id # pubs[r][n]

C15_Witness ==
    \E r \in Req :
        /\ op[r] = "deletePlatform" /\ resp[r] = <<"Success">>
        /\ Len(pubs[r]) >= 1
        /\ effect[r]["game"] # {}
        /\ effect[r]["platform"] = {arg[r]}

----------------------------------------------------------------------------
(* Requests that create *)

Alone(r) == \A q \in Req \ {r} : pc[q] = "idle"
Accepted(r) == Has(r, "connect")

(* C16: createPlatformWithNewVideoGames with a valid new platform, N video  *)
(* games and N+1 valid images, when no backend or artifact operation fails, *)
(* reports success and leaves 1 new Platform row with its image, N new      *)
(* VideoGame rows and N new Publication rows on that platform.  Checked on  *)
(* a request that ran alone.                                                *)
C16_CreateWithVideoGamesSucceeds ==
    \A r \in Req :
        (/\ op[r] = "createPlatformWithNewVideoGames"
         /\ arg[r] = "NEO"
         /\ Accepted(r) /\ pc[r] = "done"
         /\ nfail = 0 /\ Alone(r))
            => /\ resp[r] = <<"Success">>
               /\ "NEO" \in db["platform"]
               /\ "NEO" \in pictures
               /\ Cardinality(db["video_game"]) = 2 + idx[r]
               /\ Cardinality({p \in db["publication"] : p.platform_code = "NEO"}) = idx[r]

----------------------------------------------------------------------------
----------------------------------------------------------------------------
(* C18: when createPlatform fails at any step (insert, image write or       *)
(* COMMIT), no Platform row for the requested code is added and no artifact *)
(* written by the request remains under that code.  Checked on a request    *)
(* for a new code that ran alone.                                           *)
C18_FailedCreatePlatformLeavesNothing ==
    \A r \in Req :
        (/\ op[r] = "createPlatform"
         /\ arg[r] = "NEO"
         /\ Accepted(r) /\ pc[r] = "done"
         /\ ~Sent(r, "Success") /\ Alone(r))
            => ("NEO" \notin db["platform"] /\ "NEO" \notin pictures)

----------------------------------------------------------------------------
(* C19: updatePlatform touches the image (rename, deletion, replacement)    *)
(* only after its COMMIT is acknowledged, and an update whose transaction   *)
(* is rolled back, a failed COMMIT included, has changed no image.  The     *)
(* second part is checked on a request that ran alone.                      *)
ImageEvents == {"modifyImageName", "deleteImage", "saveImageToPng"}

C19_ImageOnlyAfterCommit ==
    \A r \in Req : op[r] = "updatePlatform" =>
        /\ \A i \in DOMAIN log[r] :
              log[r][i].e \in ImageEvents =>
                  (cmt[r] = "ok" /\ \E j \in At(r, "COMMIT") : j < i)
        /\ (Accepted(r) /\ pc[r] = "done" /\ cmt[r] # "ok" /\ Alone(r))
              => pictures = {"PC", "PS5", "XBOX"}

----------------------------------------------------------------------------
(* C20: once every createPlatform, updatePlatform and deletePlatform        *)
(* request has completed, every Platform row has its image artifact, keyed  *)
(* by the current code of the row.                                          *)
C20_EveryPlatformHasItsImage ==
    AllQuiet => \A code \in db["platform"] : code \in pictures

----------------------------------------------------------------------------
(* Lookups *)

\* the rows of the table that pass the filters of the lookup
Matching(b) ==
    {x \in b.all :
        /\ b.id # NoValue => x = b.id
        /\ (b.fn \in {"getVideoGames", "getVideoGames_v2", "getVideoGame"}
            /\ b.name # Undefined) => VideoGameName(x) = b.name}

\* the statement carries LIMIT limit OFFSET (page - 1) * limit, behind the
\* parameters of its conditions
Paginates(b, page, limit) ==
    /\ b.q.stmt.limit = Len(b.q.stmt.where) + 1
    /\ b.q.stmt.offset = Len(b.q.stmt.where) + 2
    /\ Len(b.q.values) = Len(b.q.stmt.where) + 2
    /\ b.q.values[b.q.stmt.limit] = Num(limit)
    /\ b.q.values[b.q.stmt.offset] = Num((page - 1) * limit)

\* the statement carries no pagination clause and every matching row is answered
Unpaginated(b) ==
    /\ b.q.stmt.limit = 0
    /\ b.q.stmt.offset = 0
    /\ Len(b.q.values) = Len(b.q.stmt.where)
    /\ Range(b.rows) = Matching(b)
    /\ Len(b.rows) = Cardinality(Matching(b))

\* C21 as stated: in getVideoGames (both versions) and getGenres the statement
\* carries LIMIT limit OFFSET (page - 1) * limit when page and limit are both
\* given, and carries no pagination clause and answers the full result set when
\* either is absent.
C21_PaginationOnlyWhenBothGiven ==
    (built.fn \in {"getVideoGames", "getVideoGames_v2", "getGenres"}
     /\ built.outcome = "Success")
        => IF built.page # NoValue /\ built.limit # NoValue
           THEN Paginates(built, built.page, built.limit)
           ELSE Unpaginated(built)

\* C21 amended: that holds of getVideoGames without defaults and of getGenres;
\* the later getVideoGames replaces an absent page by DEFAULT_PAGE and an absent
\* limit by DEFAULT_LIMIT and always carries the clause.
C21_PaginationAmended ==
    /\ (built.fn \in {"getVideoGames", "getGenres"} /\ built.outcome = "Success")
        => IF built.page # NoValue /\ built.limit # NoValue
           THEN Paginates(built, built.page, built.limit)
           ELSE Unpaginated(built)
    /\ built.fn = "getVideoGames_v2"
        => Paginates(built,
                     IF built.page = NoValue THEN DEFAULT_PAGE ELSE built.page,
                     IF built.limit = NoValue THEN DEFAULT_LIMIT ELSE built.limit)

C21_Witness ==
    /\ built.fn = "getVideoGames"
    /\ built.id # NoValue /\ built.name # Undefined
    /\ built.page = 2 /\ built.limit = 2
    /\ built.q.stmt.limit = 3 /\ built.q.values[4] = Num(2)
    /\ built.outcome = "Success"

\* rows (p - 1) * L + 1 .. min(p * L, R) of the matching rows in ascending id
PageOf(b) ==
    SubSeq(Ascending(Matching(b)), (b.page - 1) * b.limit + 1,
           Min(b.page * b.limit, Cardinality(Matching(b))))

\* C22: a lookup request with page p and limit L over R rows answers exactly
\* rows (p - 1) * L + 1 .. min(p * L, R) in ascending id, and a page past the
\* last row answers an empty set, not an error (a failing statement aside).
C22_PageReturnsItsRows ==
    (/\ built.fn \in {"getVideoGame", "getUser"}
     /\ built.page # NoValue /\ built.limit # NoValue
     /\ built.outcome \notin {"BadRequest", "InternalFailure"})
        => /\ built.outcome = "Success"
           /\ built.rows = PageOf(built)

StrictlyAscending(rows) == \A i \in 1..(Len(rows) - 1) : rows[i] < rows[i + 1]

\* C23: a lookup answers its rows in ascending id unless the caller asked for
\* another sort, and two pages of the same limit read one after the other share
\* no row; read from page 1 up to the last page they hold every matching row
\* exactly once.
C23_StableOrderDisjointPages ==
    (built.fn \in {"getVideoGames", "getVideoGames_v2", "getGenres"}
     /\ built.outcome = "Success")
        => /\ ~built.alphabetical => StrictlyAscending(built.rows)
           /\ (Len(built.walk) = 2 /\ built.limit # NoValue)
                => Range(built.walk[1]) \cap Range(built.walk[2]) = {}
           /\ (Len(built.walk) = 2 /\ built.page = 2
               /\ built.limit # NoValue /\ 2 * built.limit >= Cardinality(Matching(built)))
                => /\ Range(built.walk[1]) \cup Range(built.walk[2]) = Matching(built)
                   /\ Len(built.walk[1]) + Len(built.walk[2]) = Cardinality(Matching(built))

----------------------------------------------------------------------------
(* createUserWithGames *)

\* the outcome the taxonomy gives to a backend error
Reported(kind) ==
    CASE kind = "unique" -> "DuplicateEntry"
      [] kind = "fk" -> "ForeignKeyNotFound"
      [] OTHER -> "InternalFailure"

\* the ROLLBACK of the catch block was acknowledged
RolledBack(r) ==
    \E i \in At(r, "ROLLBACK") : i < Len(log[r]) /\ log[r][i + 1].e = "release"

\* C24: a request whose statement failed reports a unique violation as
\* DuplicateEntry, a foreign-key violation as ForeignKeyNotFound and any other
\* backend error as InternalFailure, and it issued ROLLBACK whichever it was
\* (stated for the requests whose ROLLBACK the backend acknowledged).
C24_BackendErrorsClassified ==
    \A r \in Req :
        (pc[r] = "done" /\ op[r] = "createUserWithGames" /\ err[r] # "none")
            => /\ Has(r, "ROLLBACK")
               /\ RolledBack(r) => resp[r] = <<Reported(err[r])>>

----------------------------------------------------------------------------
(* Responses and connections *)

C26_PooledConnectionsQuiet ==
    \A c \in idle : queue[c] = <<>> /\ tx[c] = "none"

----------------------------------------------------------------------------
(* Platform codes *)

\* the codes of the model that hold a lower-case letter
LowerCase == {"pc", "ps5", "neo"}

----------------------------------------------------------------------------
(* createUserWithGames: all or nothing *)

\* the rows a createUserWithGames request writes
NewGame(r, i) == [user_id |-> arg[r], publication_id |-> pubs[r][i]]
GamesOf(r, rows) == {g \in rows : g.user_id = arg[r]}
UserOf(r, rows) == {u \in rows : u.id = arg[r]}

\* C28: a createUserWithGames request that is over without a success leaves
\* neither its user row nor any of its game rows, committed or in a transaction
\* left open; one that answered success left its user row and one game row for
\* every listed publication id (a game row may since have been deleted by the
\* committed cascade of another request).
C28_AllOrNothing ==
    \A r \in Req :
        (op[r] = "createUserWithGames" /\ pc[r] = "done") =>
            IF resp[r] = <<"Success">>
            THEN /\ NewUser(r) \in db["user"]
                 /\ \A i \in 1..Len(pubs[r]) :
                        \/ NewGame(r, i) \in db["game"]
                        \/ \E s \in Req \ {r} : NewGame(r, i) \in effect[s]["game"]
            ELSE /\ UserOf(r, db["user"]) = {}
                 /\ GamesOf(r, db["game"]) = {}
                 /\ \A c \in Conns :
                        /\ UserOf(r, ins[c]["user"]) = {}
                        /\ GamesOf(r, ins[c]["game"]) = {}

\* one request created its user with a game; another had written its user row
\* and a game row when its second publication id was not found
C28_Witness ==
    \E r, s \in Req :
        /\ op[r] = "createUserWithGames" /\ resp[r] = <<"Success">>
        /\ Len(pubs[r]) >= 1
        /\ NewUser(r) \in db["user"] /\ NewGame(r, 1) \in db["game"]
        /\ op[s] = "createUserWithGames" /\ pc[s] = "done"
        /\ resp[s] = <<"NotFound">> /\ idx[s] = 2

----------------------------------------------------------------------------
(* The pool *)

----------------------------------------------------------------------------
(* createPlatform with a code that exists *)

\* the request met a platform row of its code at its INSERT
MetDuplicate(r) == op[r] = "createPlatform" /\ pc[r] = "done" /\ err[r] = "unique"

\* the row and the image of the code are there, and the request removed no
\* row, wrote no image and committed nothing
DuplicateLeftAlone(r) ==
    /\ arg[r] \in db["platform"]
    /\ arg[r] \in pictures
    /\ effect[r] = NoRows
    /\ ~Has(r, "saveImageToPng")
    /\ ~Has(r, "COMMIT")

\* C30 (as stated): createPlatform with a code that already exists reports
\* DuplicateEntry and leaves the row and the image of that code as they were;
\* the image write is not reached.
C30_DuplicateCodeReported ==
    \A r \in Req :
        MetDuplicate(r) => (resp[r] = <<"DuplicateEntry">> /\ DuplicateLeftAlone(r))

\* what holds of such a request: the row and the image are left as they were,
\* and the answer is DuplicateEntry when the ROLLBACK of the catch block is
\* acknowledged, InternalFailure when that ROLLBACK fails
DuplicateCodeKept ==
    \A r \in Req :
        MetDuplicate(r) =>
            /\ resp[r] = IF RolledBack(r) THEN <<"DuplicateEntry">>
                         ELSE <<"InternalFailure">>
            /\ DuplicateLeftAlone(r)

====
